---- MODULE Spec2Model ----
(***************************************************************************)
(* A model of wk (lucas-stellet/wk): the worktree package                  *)
(* (internal/worktree/worktree.go) and the commands built on it            *)
(* (cmd/new.go, cmd/remove.go, cmd/organize.go).                           *)
(*                                                                         *)
(* Go strings are modelled as sequences of one-character strings, so that  *)
(* strings.HasPrefix, strings.TrimPrefix, strings.Split and the filepath   *)
(* functions are computed character by character as the library does.     *)
(***************************************************************************)
EXTENDS Integers, Sequences, FiniteSets, TLC

VARIABLES
    scan,        \* parseWorktreeList: input lines, scanner position, accumulators
    lb,          \* ListBranches: input lines, maps, result slice, position
    registry,    \* git's worktree registry, primary first
    dirs,        \* directories that exist on disk (beyond the primary's parent)
    localRefs,   \* names under refs/heads/
    remoteRefs,  \* names under refs/remotes/origin/
    remoteURL,   \* remote.origin.url, or NoURL when unset
    cmd,         \* the wk command in progress and its locals
    log,         \* external invocations made by the last library operation
    ret,         \* what the last library operation returned
    ncmd,        \* how many commands have been started
    pre,         \* one invocation of wk, from cobra's dispatch to the command body
    hk,          \* package hooks: CopyFiles and RunPostHooks in progress
    up,          \* package updater and wk update: cache, binary, call in progress
    par          \* two invocations of worktree.Add running at once

vars ==
    <<scan, lb, registry, dirs, localRefs, remoteRefs, remoteURL, cmd, log, ret, ncmd,
      pre, hk, up, par>>

\* A machine that is not running.
Idle == [pc |-> "idle"]

(***************************************************************************)
(* Bounds of the model.                                                    *)
(***************************************************************************)
MaxLines == 3     \* lines of a porcelain input
MaxRefs == 4      \* lines of a for-each-ref output
MaxFault == 7     \* positions at which an external invocation may fail
MaxList == 2      \* entries of .wk.yaml's copy and post_hooks lists
MaxCommands == 2  \* commands run one after the other on a repository
MaxDepth == 2     \* directories from the current one up to the root
MaxParts == 3     \* dot-separated components of a version number

(***************************************************************************)
(* Strings.                                                                *)
(***************************************************************************)
Empty == <<>>

\* strings.HasPrefix
HasPrefix(s, prefix) ==
    /\ Len(s) >= Len(prefix)
    /\ SubSeq(s, 1, Len(prefix)) = prefix

\* strings.TrimPrefix
TrimPrefix(s, prefix) ==
    IF HasPrefix(s, prefix) THEN SubSeq(s, Len(prefix) + 1, Len(s)) ELSE s

\* strings.HasSuffix
HasSuffix(s, suffix) ==
    /\ Len(s) >= Len(suffix)
    /\ SubSeq(s, Len(s) - Len(suffix) + 1, Len(s)) = suffix

\* strings.TrimSuffix
TrimSuffix(s, suffix) ==
    IF HasSuffix(s, suffix) THEN SubSeq(s, 1, Len(s) - Len(suffix)) ELSE s

\* strings.Split(s, sep) for a one-character separator: always at least one part
RECURSIVE Split(_, _)
Split(s, sep) ==
    IF s = <<>> THEN << <<>> >>
    ELSE LET rest == Split(Tail(s), sep) IN
         IF Head(s) = sep THEN << <<>> >> \o rest
         ELSE << <<Head(s)>> \o Head(rest) >> \o Tail(rest)

\* strings.Join(parts, sep)
RECURSIVE JoinSep(_, _)
JoinSep(parts, sep) ==
    IF parts = <<>> THEN <<>>
    ELSE IF Len(parts) = 1 THEN Head(parts)
    ELSE Head(parts) \o <<sep>> \o JoinSep(Tail(parts), sep)

\* strings.Contains(s, c) for a one-character c
Contains(s, c) == \E i \in 1..Len(s) : s[i] = c

\* strings.TrimSpace
IsSpace(c) == c \in {" ", "\n", "\t", "\r"}

RECURSIVE TrimLeft(_)
TrimLeft(s) == IF s # <<>> /\ IsSpace(Head(s)) THEN TrimLeft(Tail(s)) ELSE s

RECURSIVE TrimRight(_)
TrimRight(s) ==
    IF s # <<>> /\ IsSpace(s[Len(s)]) THEN TrimRight(SubSeq(s, 1, Len(s) - 1)) ELSE s

TrimSpace(s) == TrimRight(TrimLeft(s))

Last(s) == s[Len(s)]

(***************************************************************************)
(* path/filepath on a Unix system.                                         *)
(***************************************************************************)
sDot == <<".">>
sDotDot == <<".", ".">>
sSlash == <<"/">>

\* The element stack filepath.Clean builds from the path's components.
RECURSIVE CleanStack(_, _, _)
CleanStack(parts, stack, rooted) ==
    IF parts = <<>> THEN stack
    ELSE LET p == Head(parts) IN
         CleanStack(Tail(parts),
             CASE p = <<>> \/ p = sDot -> stack
               [] p = sDotDot ->
                    IF stack # <<>> /\ Last(stack) # sDotDot
                    THEN SubSeq(stack, 1, Len(stack) - 1)
                    ELSE IF rooted THEN stack ELSE Append(stack, p)
               [] OTHER -> Append(stack, p),
             rooted)

\* filepath.Clean
Clean(path) ==
    IF path = <<>> THEN sDot
    ELSE LET rooted == path[1] = "/"
             body == JoinSep(CleanStack(Split(path, "/"), <<>>, rooted), "/")
             out == IF rooted THEN sSlash \o body ELSE body
         IN IF out = <<>> THEN sDot ELSE out

\* The index of the last "/" of path, 0 when it has none.
RECURSIVE LastSlash(_, _)
LastSlash(path, i) ==
    IF i = 0 THEN 0 ELSE IF path[i] = "/" THEN i ELSE LastSlash(path, i - 1)

\* filepath.Dir
Dir(path) == Clean(SubSeq(path, 1, LastSlash(path, Len(path))))

RECURSIVE StripSlashes(_)
StripSlashes(path) ==
    IF path # <<>> /\ Last(path) = "/"
    THEN StripSlashes(SubSeq(path, 1, Len(path) - 1)) ELSE path

\* filepath.Base
Base(path) ==
    IF path = <<>> THEN sDot
    ELSE LET p == StripSlashes(path)
             b == SubSeq(p, LastSlash(p, Len(p)) + 1, Len(p))
         IN IF b = <<>> THEN sSlash ELSE b

\* filepath.Join of two elements
Join(a, b) ==
    IF a = <<>> /\ b = <<>> THEN <<>>
    ELSE IF a = <<>> THEN Clean(b)
    ELSE IF b = <<>> THEN Clean(a)
    ELSE Clean(a \o sSlash \o b)

\* The string literals of worktree.go.
sWorktreeSp == <<"w", "o", "r", "k", "t", "r", "e", "e", " ">>
sHeadSp == <<"H", "E", "A", "D", " ">>
sBranchSp == <<"b", "r", "a", "n", "c", "h", " ">>
sDetachedLine == <<"d", "e", "t", "a", "c", "h", "e", "d">>
sDetached == <<"(", "d", "e", "t", "a", "c", "h", "e", "d", ")">>
sRefsHeads == <<"r", "e", "f", "s", "/", "h", "e", "a", "d", "s", "/">>

(***************************************************************************)
(* parseWorktreeList (worktree.go:66-96).                                  *)
(***************************************************************************)
\* type Worktree, and its zero value
Worktree(path, commit, branch) == [Path |-> path, Commit |-> commit, Branch |-> branch]
ZeroWorktree == Worktree(Empty, Empty, Empty)

\* lines 76-78 and 91-93: append current unless its Path is empty
FlushAlways(worktrees, current) == Append(worktrees, current)

Flush(worktrees, current) ==
    IF current.Path # Empty THEN Append(worktrees, current) ELSE worktrees

\* A faulty variant of ScanLine's first case: the new record keeps the old fields.
StartRecordKeep(current, line) ==
    [current EXCEPT !.Path = TrimPrefix(line, sWorktreeSp)]

\* line 79
StartRecord(current, line) ==
    Worktree(TrimPrefix(line, sWorktreeSp), Empty, Empty)

\* A faulty variant of BranchOf: the reference is stored as it is.
BranchOfRaw(line) == TrimPrefix(line, sBranchSp)

\* lines 83-85
BranchOf(line) == TrimPrefix(TrimPrefix(line, sBranchSp), sRefsHeads)

\* A faulty variant of DetachedBranch: the line's own word is stored.
DetachedPlain == <<"d", "e", "t", "a", "c", "h", "e", "d">>

\* line 87
DetachedBranch == sDetached

\* A faulty variant of ScanLine: a blank line ends the record.
ScanLineBlankEnds(acc, line) ==
    CASE HasPrefix(line, sWorktreeSp) ->
            [worktrees |-> Flush(acc.worktrees, acc.current),
             current |-> StartRecord(acc.current, line)]
      [] HasPrefix(line, sHeadSp) ->
            [acc EXCEPT !.current.Commit = TrimPrefix(line, sHeadSp)]
      [] HasPrefix(line, sBranchSp) ->
            [acc EXCEPT !.current.Branch = BranchOf(line)]
      [] line = sDetachedLine ->
            [acc EXCEPT !.current.Branch = DetachedBranch]
      [] line = Empty ->
            [worktrees |-> Flush(acc.worktrees, acc.current), current |-> ZeroWorktree]
      [] OTHER -> acc

\* One iteration of the scanner loop, lines 72-88: acc = [worktrees, current].
ScanLine(acc, line) ==
    CASE HasPrefix(line, sWorktreeSp) ->
            [worktrees |-> Flush(acc.worktrees, acc.current),
             current |-> StartRecord(acc.current, line)]
      [] HasPrefix(line, sHeadSp) ->
            [acc EXCEPT !.current.Commit = TrimPrefix(line, sHeadSp)]
      [] HasPrefix(line, sBranchSp) ->
            [acc EXCEPT !.current.Branch = BranchOf(line)]
      [] line = sDetachedLine ->
            [acc EXCEPT !.current.Branch = DetachedBranch]
      [] OTHER -> acc

\* bufio.MaxScanTokenSize: the Scanner of line 70 has the default buffer.
MaxScanTokenSize == 65536

\* A run of MaxScanTokenSize bytes of a line, held as one element.
cRun == "<64KiB>"

\* The length of a line in bytes.
RECURSIVE ByteLen(_)
ByteLen(line) ==
    IF line = <<>> THEN 0
    ELSE (IF Head(line) = cRun THEN MaxScanTokenSize ELSE 1) + ByteLen(Tail(line))

\* scanner.Scan() stops with bufio.ErrTooLong at a line that does not fit
\* the buffer.
TooLong(line) == ByteLen(line) >= MaxScanTokenSize

\* lines 67-68
ScanStart == [worktrees |-> <<>>, current |-> ZeroWorktree]

\* The whole function, as List() uses it: the loop, then lines 91-95.
RECURSIVE ScanAll(_, _)
ScanAll(acc, lines) ==
    IF lines = <<>> \/ TooLong(Head(lines)) THEN acc
    ELSE ScanAll(ScanLine(acc, Head(lines)), Tail(lines))

parseWorktreeList(lines) ==
    LET acc == ScanAll(ScanStart, lines) IN Flush(acc.worktrees, acc.current)

\* line 95: scanner.Err()
ScanErr(lines) == \E i \in 1..Len(lines) : TooLong(lines[i])


(***************************************************************************)
(* The repository as git sees it, and git's answers.                       *)
(***************************************************************************)
sDotGit == <<".", "g", "i", "t">>
sDotWorktrees == <<".", "w", "o", "r", "k", "t", "r", "e", "e", "s">>
sLockedLine == <<"l", "o", "c", "k", "e", "d">>
sOriginSlash == <<"o", "r", "i", "g", "i", "n", "/">>
sHEAD == <<"H", "E", "A", "D">>

\* An argument of an external command: a literal of the code, or a string value.
Lit(s) == [lit |-> s]
Str(s) == [str |-> s]

\* One entry of log: an external invocation and its exit status.
Call(kind, argv, failed) ==
    [kind |-> kind, argv |-> argv, exit |-> IF failed THEN 1 ELSE 0]

\* The fault f is the position, in the operation's sequence of external
\* invocations, of the one invocation that fails for a reason of its own
\* (0: none does). `git config --get` and `git show-ref --verify --quiet`
\* answer by their exit status: theirs is the repository's answer.
Faulty(lg, f) == Len(lg) + 1 = f

\* The output of `git worktree list --porcelain` for one registry entry.
PorcelainBlock(e) ==
    << sWorktreeSp \o e.Path, sHeadSp \o e.Commit,
       IF e.Branch = Empty THEN sDetachedLine
       ELSE sBranchSp \o sRefsHeads \o e.Branch >>
    \o (IF e.locked THEN <<sLockedLine>> ELSE <<>>)
    \o << Empty >>

RECURSIVE Porcelain(_)
Porcelain(reg) ==
    IF reg = <<>> THEN <<>> ELSE PorcelainBlock(Head(reg)) \o Porcelain(Tail(reg))

Result(err, val, lg) == [err |-> err, val |-> val, log |-> lg]

\* F applied to the value of v: Go evaluates a call once and binds its result.
Bind(v, F(_)) == CHOOSE r \in {F(x) : x \in {v}} : TRUE

(***************************************************************************)
(* The worktree package's queries (worktree.go).                           *)
(***************************************************************************)
ArgvList == <<Lit("worktree"), Lit("list"), Lit("--porcelain")>>

\* A faulty variant of List: the exit status of the external command is not looked at.
ListIgnoreError(lg, f) ==
    IF Faulty(lg, f)
    THEN Result(FALSE, <<>>, Append(lg, Call("git", ArgvList, TRUE)))
    ELSE Result(FALSE, parseWorktreeList(Porcelain(registry)),
                Append(lg, Call("git", ArgvList, FALSE)))

\* List, lines 56-64
List(lg, f) ==
    IF Faulty(lg, f)
    THEN Result(TRUE, <<>>, Append(lg, Call("git", ArgvList, TRUE)))
    ELSE Result(ScanErr(Porcelain(registry)), parseWorktreeList(Porcelain(registry)),
                Append(lg, Call("git", ArgvList, FALSE)))

\* GetMainWorktreePath, lines 116-127
GetMainWorktreePath(lg, f) ==
    Bind(List(lg, f), LAMBDA r :
        IF r.err THEN Result(TRUE, Empty, r.log)
        ELSE IF Len(r.val) = 0 THEN Result(TRUE, Empty, r.log)
        ELSE Result(FALSE, r.val[1].Path, r.log))

\* strings.TrimRight(s, cutset)
RECURSIVE TrimRightCutset(_, _)
TrimRightCutset(s, cutset) ==
    IF s # <<>> /\ s[Len(s)] \in cutset
    THEN TrimRightCutset(SubSeq(s, 1, Len(s) - 1), cutset)
    ELSE s

\* A faulty variant of extractRepoName: ".git" is taken as a set of characters.
extractRepoNameCutset(url) ==
    Bind(Split(TrimRightCutset(url, {".", "g", "i", "t"}), "/"), LAMBDA parts :
        IF Len(parts) > 0 THEN Last(parts) ELSE Empty)

\* extractRepoName, lines 210-229
extractRepoName(url) ==
    Bind(Split(TrimSuffix(url, sDotGit), "/"), LAMBDA parts :
        IF Contains(TrimSuffix(url, sDotGit), ":")
           /\ Contains(TrimSuffix(url, sDotGit), "@")
        THEN (IF Len(parts) > 0 THEN Last(parts) ELSE Empty)
        ELSE (IF Len(parts) > 0 THEN Last(parts) ELSE Empty))

ArgvConfig == <<Lit("config"), Lit("--get"), Lit("remote.origin.url")>>

\* GetRepoName, lines 200-205: the fallback to the main worktree's directory name
RepoNameFallback(lg, f) ==
    Bind(GetMainWorktreePath(lg, f), LAMBDA m :
        IF m.err THEN Result(TRUE, Empty, m.log)
        ELSE Result(FALSE, Base(m.val), m.log))

\* A faulty variant of GetRepoName: an empty extracted name is returned.
GetRepoNameNoEmptyCheck(lg, f) ==
    IF ~remoteURL.set
    THEN RepoNameFallback(Append(lg, Call("git", ArgvConfig, TRUE)), f)
    ELSE Result(FALSE, extractRepoName(TrimSpace(remoteURL.url \o <<"\n">>)),
                Append(lg, Call("git", ArgvConfig, FALSE)))

\* GetRepoName, lines 188-206. `git config --get` exits 1 when the key is unset.
GetRepoName(lg, f) ==
    IF ~remoteURL.set
    THEN RepoNameFallback(Append(lg, Call("git", ArgvConfig, TRUE)), f)
    ELSE Bind(extractRepoName(TrimSpace(remoteURL.url \o <<"\n">>)), LAMBDA name :
            IF name # Empty
            THEN Result(FALSE, name, Append(lg, Call("git", ArgvConfig, FALSE)))
            ELSE RepoNameFallback(Append(lg, Call("git", ArgvConfig, FALSE)), f))

\* GetWorktreesDir, lines 232-246
GetWorktreesDir(lg, f) ==
    Bind(GetRepoName(lg, f), LAMBDA r :
        IF r.err THEN Result(TRUE, Empty, r.log)
        ELSE Bind(GetMainWorktreePath(r.log, f), LAMBDA m :
                IF m.err THEN Result(TRUE, Empty, m.log)
                ELSE Result(FALSE, Join(Dir(m.val), r.val \o sDotWorktrees), m.log)))

\* A faulty variant of InStandard: the path must lie below the directory.
InStandardBelow(wtPath, mainPath, worktreesDir) ==
    IF wtPath = mainPath THEN TRUE ELSE HasPrefix(wtPath, worktreesDir \o sSlash)

\* IsInStandardLocation, lines 255-261
InStandard(wtPath, mainPath, worktreesDir) ==
    IF wtPath = mainPath THEN TRUE ELSE HasPrefix(wtPath, worktreesDir)

\* IsInStandardLocation, lines 249-262: the error of the second
\* GetMainWorktreePath is dropped and mainPath is then "".
IsInStandardLocation(wtPath, lg, f) ==
    Bind(GetWorktreesDir(lg, f), LAMBDA d :
        IF d.err THEN Result(TRUE, FALSE, d.log)
        ELSE Bind(GetMainWorktreePath(d.log, f), LAMBDA m :
                Result(FALSE,
                       InStandard(wtPath, IF m.err THEN Empty ELSE m.val, d.val),
                       m.log)))

ArgvShowRef(ref) ==
    <<Lit("show-ref"), Lit("--verify"), Lit("--quiet"), Str(ref)>>

sRefsRemotesOrigin ==
    <<"r", "e", "f", "s", "/", "r", "e", "m", "o", "t", "e", "s", "/">> \o sOriginSlash

\* BranchExists, lines 157-159: the probe of the remote-tracking namespace
ProbeRemote(branch, lg, f) ==
    IF branch \notin remoteRefs
    THEN Result(FALSE, FALSE,
             Append(lg, Call("git", ArgvShowRef(sRefsRemotesOrigin \o branch), TRUE)))
    ELSE Result(FALSE, TRUE,
             Append(lg, Call("git", ArgvShowRef(sRefsRemotesOrigin \o branch), FALSE)))

\* A faulty variant of BranchExists: only the local namespace is probed.
BranchExistsLocalOnly(branch, lg, f) ==
    IF branch \notin localRefs
    THEN Result(FALSE, FALSE,
             Append(lg, Call("git", ArgvShowRef(sRefsHeads \o branch), TRUE)))
    ELSE Result(FALSE, TRUE,
             Append(lg, Call("git", ArgvShowRef(sRefsHeads \o branch), FALSE)))

\* BranchExists, lines 150-160: `git show-ref --verify --quiet` exits non-zero
\* when the reference does not exist.
BranchExists(branch, lg, f) ==
    IF branch \notin localRefs
    THEN ProbeRemote(branch,
             Append(lg, Call("git", ArgvShowRef(sRefsHeads \o branch), TRUE)), f)
    ELSE Result(FALSE, TRUE,
             Append(lg, Call("git", ArgvShowRef(sRefsHeads \o branch), FALSE)))

(***************************************************************************)
(* The worktree package's mutators, with git's side of each.               *)
(***************************************************************************)
\* What a mutator returns and the repository it leaves.
Outcome(err, val, lg, reg, ds, refs) ==
    [err |-> err, val |-> val, log |-> lg, registry |-> reg, dirs |-> ds,
     localRefs |-> refs]

Registered(path) == \E i \in 1..Len(registry) : registry[i].Path = path
CheckedOut(branch) == \E i \in 1..Len(registry) : registry[i].Branch = branch

\* `git worktree add [-b <branch>] <path> <ref>` accepts: the path is free, and
\* either the new branch does not exist yet, or the ref names a branch (local,
\* or a remote-tracking one git then creates a local branch from) that no
\* worktree has checked out.
GitAddAccepts(path, branch, newBranch, ds) ==
    /\ path \notin ds
    /\ ~Registered(path)
    /\ IF newBranch THEN branch \notin localRefs
       ELSE (branch \in localRefs \/ branch \in remoteRefs) /\ ~CheckedOut(branch)

ArgvAddExisting(path, branch) ==
    <<Lit("worktree"), Lit("add"), Str(path), Str(branch)>>

ArgvAddNew(path, branch) ==
    <<Lit("worktree"), Lit("add"), Lit("-b"), Str(branch), Str(path), Lit("HEAD")>>

ArgvMkdirAll(dir) == <<Lit("MkdirAll"), Str(dir)>>

\* A faulty variant of AddArgv: always create the branch.
AddArgvAlwaysNew(exists, path, branch) == ArgvAddNew(path, branch)

\* Add, lines 38-45
AddArgv(exists, path, branch) ==
    IF exists THEN ArgvAddExisting(path, branch) ELSE ArgvAddNew(path, branch)

\* Add, lines 47-52: the external add and what Add returns. ds is the disk
\* after MkdirAll.
AddRun(branch, ds, path, argv, lg, fault) ==
    IF fault \/ ~GitAddAccepts(path, branch, argv[3] = Lit("-b"), ds)
    THEN Outcome(TRUE, Empty, Append(lg, Call("git", argv, TRUE)),
                 registry, ds, localRefs)
    ELSE Outcome(FALSE, path, Append(lg, Call("git", argv, FALSE)),
            Append(registry,
                [Path |-> path, Commit |-> registry[1].Commit,
                 Branch |-> branch, dirty |-> FALSE, locked |-> FALSE]),
            ds \cup {path}, localRefs \cup {branch})

\* Add, lines 36-45: the path, the probe and the arguments it decides.
AddProbe(branch, f, ds, path, lg) ==
    Bind(BranchExists(branch, lg, f), LAMBDA be :
        AddRun(branch, ds, path, AddArgv(be.val, path, branch), be.log,
               Faulty(be.log, f)))

\* A faulty variant of AddMkdir: os.MkdirAll makes the worktree's own directory.
AddMkdirPath(branch, f, dir, lg) ==
    IF Faulty(lg, f)
    THEN Outcome(TRUE, Empty,
                 Append(lg, Call("fs", ArgvMkdirAll(Join(dir, branch)), TRUE)),
                 registry, dirs, localRefs)
    ELSE AddProbe(branch, f, dirs \cup {dir, Join(dir, branch)}, Join(dir, branch),
                  Append(lg, Call("fs", ArgvMkdirAll(Join(dir, branch)), FALSE)))

\* Add, lines 31-34: os.MkdirAll of the worktrees directory.
AddMkdir(branch, f, dir, lg) ==
    IF Faulty(lg, f)
    THEN Outcome(TRUE, Empty, Append(lg, Call("fs", ArgvMkdirAll(dir), TRUE)),
                 registry, dirs, localRefs)
    ELSE AddProbe(branch, f, dirs \cup {dir}, Join(dir, branch),
                  Append(lg, Call("fs", ArgvMkdirAll(dir), FALSE)))

\* Add, lines 25-53
Add(branch, f) ==
    Bind(GetWorktreesDir(<<>>, f), LAMBDA d :
        IF d.err THEN Outcome(TRUE, Empty, d.log, registry, dirs, localRefs)
        ELSE AddMkdir(branch, f, d.val, d.log))

\* The registry entries `git worktree remove <target>` resolves target to: the
\* one whose path is target, or whose path ends with /target.
Resolve(target) ==
    {i \in 1..Len(registry) :
        \/ registry[i].Path = target
        \/ HasSuffix(registry[i].Path, sSlash \o target)}

\* `git worktree remove [--force] <target>` accepts: target names one linked
\* worktree, not locked, and clean unless --force is given.
GitRemoveAccepts(target, force) ==
    /\ Cardinality(Resolve(target)) = 1
    /\ \A i \in Resolve(target) :
         /\ i # 1
         /\ ~registry[i].locked
         /\ (registry[i].dirty => force)

Without(seq, i) == SubSeq(seq, 1, i - 1) \o SubSeq(seq, i + 1, Len(seq))

\* A faulty variant of RemoveArgv: --force is never passed.
RemoveArgvNoForce(target, force) ==
    <<Lit("worktree"), Lit("remove"), Str(target)>>

\* A faulty variant of RemoveArgv: --force is always passed.
RemoveArgvForce(target, force) ==
    <<Lit("worktree"), Lit("remove"), Lit("--force"), Str(target)>>

\* Remove, lines 101-105
RemoveArgv(target, force) ==
    <<Lit("worktree"), Lit("remove")>>
    \o (IF force THEN <<Lit("--force")>> ELSE <<>>)
    \o <<Str(target)>>

\* Remove, lines 107-112: the external remove and what Remove returns.
RemoveRun(target, argv, fault) ==
    IF fault \/ ~GitRemoveAccepts(target, argv[3] = Lit("--force"))
    THEN Outcome(TRUE, Empty, <<Call("git", argv, TRUE)>>, registry, dirs, localRefs)
    ELSE Bind(CHOOSE i \in Resolve(target) : TRUE, LAMBDA i :
            Outcome(FALSE, Empty, <<Call("git", argv, FALSE)>>,
                    Without(registry, i), dirs \ {registry[i].Path}, localRefs))

\* Remove, lines 100-113
Remove(target, force, f) ==
    RemoveRun(target, RemoveArgv(target, force), Faulty(<<>>, f))

\* Where `git worktree move <from> <to>` puts the worktree: into <to> when <to>
\* is an existing directory, at <to> otherwise.
GitMoveDest(from, to, ds) ==
    IF to \in ds \/ Registered(to) THEN Join(to, Base(from)) ELSE to

\* `git worktree move` accepts: <from> is a linked worktree, not locked, and
\* nothing exists at the destination.
GitMoveAccepts(from, to, ds) ==
    /\ \E i \in 2..Len(registry) : registry[i].Path = from /\ ~registry[i].locked
    /\ Bind(GitMoveDest(from, to, ds), LAMBDA dest :
            dest \notin ds /\ ~Registered(dest))

ArgvMove(from, to) == <<Lit("worktree"), Lit("move"), Str(from), Str(to)>>

\* Move, lines 276-284: the external move and what Move returns. ds is the
\* disk after MkdirAll.
MoveRun(wt, ds, newPath, lg, fault) ==
    IF fault \/ ~GitMoveAccepts(wt.Path, newPath, ds)
    THEN Outcome(TRUE, Empty,
                 Append(lg, Call("git", ArgvMove(wt.Path, newPath), TRUE)),
                 registry, ds, localRefs)
    ELSE Bind(GitMoveDest(wt.Path, newPath, ds), LAMBDA dest :
            Outcome(FALSE, newPath,
                Append(lg, Call("git", ArgvMove(wt.Path, newPath), FALSE)),
                [i \in 1..Len(registry) |->
                    IF registry[i].Path = wt.Path
                    THEN [registry[i] EXCEPT !.Path = dest] ELSE registry[i]],
                (ds \ {wt.Path}) \cup {dest}, localRefs))

\* A faulty variant of MoveMkdir: the target is named after the old directory.
MoveMkdirByBase(wt, f, dir, lg) ==
    IF Faulty(lg, f)
    THEN Outcome(TRUE, Empty, Append(lg, Call("fs", ArgvMkdirAll(dir), TRUE)),
                 registry, dirs, localRefs)
    ELSE Bind(Append(lg, Call("fs", ArgvMkdirAll(dir), FALSE)), LAMBDA lg1 :
            MoveRun(wt, dirs \cup {dir}, Join(dir, Base(wt.Path)), lg1, Faulty(lg1, f)))

\* Move, lines 271-274: os.MkdirAll of the worktrees directory.
MoveMkdir(wt, f, dir, lg) ==
    IF Faulty(lg, f)
    THEN Outcome(TRUE, Empty, Append(lg, Call("fs", ArgvMkdirAll(dir), TRUE)),
                 registry, dirs, localRefs)
    ELSE Bind(Append(lg, Call("fs", ArgvMkdirAll(dir), FALSE)), LAMBDA lg1 :
            MoveRun(wt, dirs \cup {dir}, Join(dir, wt.Branch), lg1, Faulty(lg1, f)))

\* Move, lines 265-285
Move(wt, f) ==
    Bind(GetWorktreesDir(<<>>, f), LAMBDA d :
        IF d.err THEN Outcome(TRUE, Empty, d.log, registry, dirs, localRefs)
        ELSE MoveMkdir(wt, f, d.val, d.log))

(***************************************************************************)
(* The commands: wk new, wk remove, wk organize.                           *)
(***************************************************************************)
Faults == 0..MaxFault

\* The branch names a user asks for.
bA == <<"a">>
bB == <<"b">>
bMain == <<"m">>
BranchNames == {bA, bB}

\* A command's locals; at pc = "returned" err is what the command returned.
Command(name, pc, err, events) ==
    [name |-> name, pc |-> pc, err |-> err, events |-> events,
     dst |-> Empty, copy |-> <<>>, hooks |-> <<>>,
     worktrees |-> <<>>, nonStandard |-> <<>>, i |-> 0,
     answer |-> Empty, read |-> FALSE, target |-> Empty]

Returned(name, err, events) == Command(name, "returned", err, events)

Fresh == Command("none", "idle", FALSE, <<>>)

Ev(kind, what, ok) == [kind |-> kind, what |-> what, ok |-> ok]

NoRet == [op |-> "none", args |-> <<>>, err |-> FALSE, val |-> Empty]

Ret(op, args, r) == [op |-> op, args |-> args, err |-> r.err, val |-> r.val]

World(o) ==
    /\ registry' = o.registry
    /\ dirs' = o.dirs
    /\ localRefs' = o.localRefs

SameWorld == UNCHANGED <<registry, dirs, localRefs>>

Fixed == UNCHANGED <<scan, lb, remoteRefs, remoteURL, pre, hk, up, par>>

\* A command starts in a process of its own.
Start ==
    /\ cmd.pc = "idle"
    /\ ncmd < MaxCommands
    /\ ncmd' = ncmd + 1

\* The process exits: nothing of a command outlives it but the repository.
Exit ==
    /\ cmd.pc = "returned"
    /\ cmd' = Fresh
    /\ log' = <<>>
    /\ ret' = NoRet
    /\ UNCHANGED ncmd
    /\ SameWorld /\ Fixed

\* worktree.Add called on its own.
AddCall(branch, f) ==
    /\ Start
    /\ \E o \in {Add(branch, f)} :
       /\ World(o)
       /\ log' = o.log
       /\ ret' = Ret("Add", <<branch>>, o)
       /\ cmd' = Returned("add", o.err, <<>>)
    /\ Fixed

\* runNew, part_008:39-79: the branch argument (or the selector's choice), then Add.
NewStart(branch, f) ==
    /\ cmd.pc = "idle"
    /\ UNCHANGED ncmd
    /\ \E o \in {Add(branch, f)} :
       /\ World(o)
       /\ log' = o.log
       /\ ret' = Ret("Add", <<branch>>, o)
       /\ cmd' = IF o.err
                 THEN Returned("new", TRUE, <<Ev("add", branch, FALSE)>>)
                 ELSE [Command("new", "config", FALSE, <<Ev("add", branch, TRUE)>>)
                          EXCEPT !.dst = o.val]
    /\ Fixed

\* runNew, part_008:50-53: the selector was cancelled.
NewCancelled ==
    /\ cmd.pc = "idle"
    /\ UNCHANGED ncmd
    /\ cmd' = Returned("new", FALSE, <<>>)
    /\ UNCHANGED <<log, ret>>
    /\ SameWorld /\ Fixed

\* The lists a .wk.yaml may hold: files and commands are numbered.
Lists == {[i \in 1..n |-> i] : n \in 0..MaxList}

\* Where runNew goes once the copy list is done, part_008:104-114.
AfterCopy(hooks) == IF Len(hooks) > 0 THEN "hooks" ELSE "switch"

\* runNew, part_008:81-102: FindConfig and Load.
NewConfig ==
    /\ cmd.name = "new" /\ cmd.pc = "config"
    /\ UNCHANGED ncmd
    /\ \/ cmd' = Returned("new", FALSE, cmd.events)          \* no .wk.yaml
       \/ cmd' = Returned("new", TRUE, cmd.events)           \* find or load failed
       \/ \E copy \in Lists, hooks \in Lists :
            cmd' = [cmd EXCEPT !.copy = copy, !.hooks = hooks,
                               !.pc = IF Len(copy) > 0 THEN "copy"
                                      ELSE AfterCopy(hooks)]
    /\ UNCHANGED <<log, ret>>
    /\ SameWorld /\ Fixed

\* A faulty variant of NewCopy: a failed copy is reported and the command goes on.
NewCopyKeepGoing ==
    /\ cmd.name = "new" /\ cmd.pc = "copy"
    /\ UNCHANGED ncmd
    /\ \E outcome \in {"copied", "missing", "error"} :
         cmd' = [cmd EXCEPT !.events = Append(cmd.events,
                                             Ev("copy", Head(cmd.copy), outcome)),
                            !.copy = Tail(cmd.copy),
                            !.pc = IF Len(cmd.copy) > 1 THEN "copy"
                                   ELSE AfterCopy(cmd.hooks)]
    /\ UNCHANGED <<log, ret>>
    /\ SameWorld /\ Fixed

\* hooks.CopyFiles, cache.go:153-176: one iteration of its loop; an error
\* returns through runNew, part_008:99-101.
NewCopy ==
    /\ cmd.name = "new" /\ cmd.pc = "copy"
    /\ UNCHANGED ncmd
    /\ \E outcome \in {"copied", "missing", "error"} :
         LET file == Head(cmd.copy)
             ev == Append(cmd.events, Ev("copy", file, outcome))
         IN cmd' = IF outcome = "error" THEN Returned("new", TRUE, ev)
                   ELSE [cmd EXCEPT !.events = ev, !.copy = Tail(cmd.copy),
                            !.pc = IF Len(cmd.copy) > 1 THEN "copy"
                                   ELSE AfterCopy(cmd.hooks)]
    /\ UNCHANGED <<log, ret>>
    /\ SameWorld /\ Fixed

\* hooks.RunPostHooks, cache.go:231-245: one iteration of its loop; an error
\* returns through runNew, part_008:107-109.
NewHook ==
    /\ cmd.name = "new" /\ cmd.pc = "hooks"
    /\ UNCHANGED ncmd
    /\ \E ok \in BOOLEAN :
         LET ev == Append(cmd.events, Ev("hook", Head(cmd.hooks), ok))
         IN cmd' = IF ~ok THEN Returned("new", TRUE, ev)
                   ELSE [cmd EXCEPT !.events = ev, !.hooks = Tail(cmd.hooks),
                            !.pc = IF Len(cmd.hooks) > 1 THEN "hooks" ELSE "switch"]
    /\ UNCHANGED <<log, ret>>
    /\ SameWorld /\ Fixed

\* runNew, part_008:112-120: the switch prompt, and the shell when the answer is yes.
NewSwitch ==
    /\ cmd.name = "new" /\ cmd.pc = "switch"
    /\ UNCHANGED ncmd
    /\ \/ cmd' = Returned("new", FALSE, cmd.events)
       \/ \E ok \in BOOLEAN :
            cmd' = Returned("new", ~ok, Append(cmd.events, Ev("shell", cmd.dst, ok)))
    /\ UNCHANGED <<log, ret>>
    /\ SameWorld /\ Fixed

\* What a user may name to wk remove: a branch, or a worktree's path.
Targets == BranchNames \cup {registry[i].Path : i \in 1..Len(registry)}

\* runRemove, remove.go:32-55, with the target given or selected.
RemoveCmd(target, force, f) ==
    /\ Start
    /\ \E o \in {Remove(target, force, f)} :
       /\ World(o)
       /\ log' = o.log
       /\ ret' = [Ret("Remove", <<target>>, o) EXCEPT !.val = force]
       /\ cmd' = Returned("remove", o.err, <<>>)
    /\ Fixed

\* runOrganize, organize.go:26-29
OrganizeStart(f) ==
    /\ Start
    /\ \E r \in {List(<<>>, f)} :
       /\ log' = r.log
       /\ ret' = Ret("List", <<>>, r)
       /\ cmd' = IF r.err THEN Returned("organize", TRUE, <<>>)
                 ELSE [Command("organize", "classify", FALSE, <<>>)
                          EXCEPT !.worktrees = r.val, !.i = 1]
    /\ SameWorld /\ Fixed

\* runOrganize, organize.go:33-41: one iteration of the classifying loop.
OrganizeClassify(f) ==
    /\ cmd.name = "organize" /\ cmd.pc = "classify"
    /\ UNCHANGED ncmd
    /\ cmd.i <= Len(cmd.worktrees)
    /\ \E wt \in {cmd.worktrees[cmd.i]} :
       \E r \in {IsInStandardLocation(wt.Path, <<>>, f)} :
          /\ log' = r.log
          /\ ret' = Ret("IsInStandardLocation", <<wt.Path>>, r)
          /\ cmd' = [cmd EXCEPT !.i = cmd.i + 1,
                        !.nonStandard = IF ~r.err /\ ~r.val
                                        THEN Append(cmd.nonStandard, wt)
                                        ELSE cmd.nonStandard]
    /\ SameWorld /\ Fixed

\* runOrganize, organize.go:43-59
OrganizeShow(f) ==
    /\ cmd.name = "organize" /\ cmd.pc = "classify"
    /\ UNCHANGED ncmd
    /\ cmd.i > Len(cmd.worktrees)
    /\ IF Len(cmd.nonStandard) = 0
       THEN /\ cmd' = [Returned("organize", FALSE, <<>>) EXCEPT
                          !.worktrees = cmd.worktrees]
            /\ UNCHANGED <<log, ret>>
       ELSE \E r \in {GetWorktreesDir(<<>>, f)} :
            /\ log' = r.log
            /\ ret' = Ret("GetWorktreesDir", <<>>, r)
            /\ cmd' = IF r.err
                      THEN [Returned("organize", TRUE, <<>>) EXCEPT
                               !.worktrees = cmd.worktrees,
                               !.nonStandard = cmd.nonStandard]
                      ELSE [cmd EXCEPT !.pc = "confirm"]
    /\ SameWorld /\ Fixed

\* strings.ToLower on the letters of an answer
ToLowerChar(c) ==
    CASE c = "Y" -> "y" [] c = "E" -> "e" [] c = "S" -> "s" [] c = "N" -> "n"
      [] OTHER -> c

ToLower(s) == [i \in 1..Len(s) |-> ToLowerChar(s[i])]

sY == <<"y">>
sYes == <<"y", "e", "s">>

\* The lines a user may type at the prompt.
Responses ==
    { <<"y", "\n">>, <<" ", "Y", "E", "S", "\n">>, <<"n", "\n">>, <<"\n">> }

\* A faulty variant of Confirmed: only an explicit n declines.
ConfirmedUnlessNo(response) ==
    LET r == TrimSpace(ToLower(response)) IN r # <<"n">>

\* organize.go:69-70
Confirmed(response) ==
    LET r == TrimSpace(ToLower(response)) IN ~(r # sY /\ r # sYes)

\* runOrganize, organize.go:61-73: the prompt; readOk is false when reading
\* the answer fails.
OrganizeConfirm(response, readOk) ==
    /\ cmd.name = "organize" /\ cmd.pc = "confirm"
    /\ UNCHANGED ncmd
    /\ cmd' = IF ~readOk
              THEN [Returned("organize", TRUE, <<>>) EXCEPT
                       !.worktrees = cmd.worktrees, !.nonStandard = cmd.nonStandard]
              ELSE IF ~Confirmed(response)
              THEN [Returned("organize", FALSE, <<>>) EXCEPT
                       !.worktrees = cmd.worktrees, !.nonStandard = cmd.nonStandard,
                       !.answer = response, !.read = TRUE]
              ELSE [cmd EXCEPT !.pc = "move", !.i = 1,
                               !.answer = response, !.read = TRUE]
    /\ UNCHANGED <<log, ret>>
    /\ SameWorld /\ Fixed

\* A faulty variant of AfterMove: the batch stops at the first failed Move.
AfterMoveFailFast(c, err) ==
    IF err THEN [c EXCEPT !.pc = "returned", !.err = TRUE]
    ELSE IF c.i >= Len(c.nonStandard) THEN [c EXCEPT !.pc = "returned", !.err = FALSE]
    ELSE [c EXCEPT !.i = c.i + 1]

\* organize.go:77-88: `continue` after a failure, and `return nil` after the loop
AfterMove(c, err) ==
    IF c.i >= Len(c.nonStandard) THEN [c EXCEPT !.pc = "returned", !.err = FALSE]
    ELSE [c EXCEPT !.i = c.i + 1]

\* runOrganize, organize.go:77-88: one iteration of the moving loop.
OrganizeMove(f) ==
    /\ cmd.name = "organize" /\ cmd.pc = "move"
    /\ UNCHANGED ncmd
    /\ \E wt \in {cmd.nonStandard[cmd.i]} :
       \E o \in {Move(wt, f)} :
          /\ World(o)
          /\ log' = o.log
          /\ ret' = Ret("Move", <<wt.Path, wt.Branch>>, o)
          /\ cmd' = AfterMove(
                       [cmd EXCEPT !.events = Append(cmd.events,
                                                  Ev("move", wt.Path, ~o.err))],
                       o.err)
    /\ Fixed


(***************************************************************************)
(* wk switch (cmd/switch.go) and the helpers it calls.                     *)
(***************************************************************************)
\* The first record of worktrees on the given branch, 0 if there is none.
RECURSIVE FirstOnBranch(_, _, _)
FirstOnBranch(worktrees, branch, i) ==
    IF i > Len(worktrees) THEN 0
    ELSE IF worktrees[i].Branch = branch THEN i
    ELSE FirstOnBranch(worktrees, branch, i + 1)

Found(kind, wt) == [kind |-> kind, wt |-> wt]

\* A faulty variant of FindByBranch: without a match the first record is returned.
FindByBranchOrFirst(branch, lg, f) ==
    Bind(List(lg, f), LAMBDA r :
        IF r.err THEN Result(TRUE, Found("list", ZeroWorktree), r.log)
        ELSE IF FirstOnBranch(r.val, branch, 1) = 0
        THEN IF Len(r.val) > 0
             THEN Result(FALSE, Found("found", r.val[1]), r.log)
             ELSE Result(TRUE, Found("notfound", ZeroWorktree), r.log)
        ELSE Result(FALSE, Found("found", r.val[FirstOnBranch(r.val, branch, 1)]), r.log))

\* FindByBranch, lines 173-185
FindByBranch(branch, lg, f) ==
    Bind(List(lg, f), LAMBDA r :
        IF r.err THEN Result(TRUE, Found("list", ZeroWorktree), r.log)
        ELSE IF FirstOnBranch(r.val, branch, 1) = 0
        THEN Result(TRUE, Found("notfound", ZeroWorktree), r.log)
        ELSE Result(FALSE, Found("found", r.val[FirstOnBranch(r.val, branch, 1)]), r.log))

ArgvStatus == <<Lit("status"), Lit("--porcelain")>>
ArgvAbbrevRef == <<Lit("rev-parse"), Lit("--abbrev-ref"), Lit("HEAD")>>
ArgvStash(message) == <<Lit("stash"), Lit("push"), Lit("-m"), Str(message)>>

\* HasUncommittedChanges, lines 130-137, in the worktree registry[cwd].
HasUncommittedChanges(cwd, lg, f) ==
    IF Faulty(lg, f) THEN Result(TRUE, FALSE, Append(lg, Call("git", ArgvStatus, TRUE)))
    ELSE Result(FALSE, registry[cwd].dirty, Append(lg, Call("git", ArgvStatus, FALSE)))

\* GetCurrentBranch, lines 140-147: git prints HEAD for a detached worktree.
GetCurrentBranch(cwd, lg, f) ==
    IF Faulty(lg, f) THEN Result(TRUE, Empty, Append(lg, Call("git", ArgvAbbrevRef, TRUE)))
    ELSE Result(FALSE, IF registry[cwd].Branch = Empty THEN sHEAD ELSE registry[cwd].Branch,
                Append(lg, Call("git", ArgvAbbrevRef, FALSE)))

\* time.Now().Format("150405-02012006"), whatever the time is.
sTimestamp == <<"<", "t", "i", "m", "e", ">">>

\* generateStashName, switch.go:94-98
generateStashName(branch) == branch \o <<"-">> \o sTimestamp

\* CreateStash, lines 163-170: the changes of registry[cwd] go to the stash.
CreateStash(message, cwd, lg, f) ==
    IF Faulty(lg, f)
    THEN Outcome(TRUE, Empty, Append(lg, Call("git", ArgvStash(message), TRUE)),
                 registry, dirs, localRefs)
    ELSE Outcome(FALSE, Empty, Append(lg, Call("git", ArgvStash(message), FALSE)),
                 [registry EXCEPT ![cwd].dirty = FALSE], dirs, localRefs)

\* What a user may name to wk switch, and the absence of an argument.
NoArg == <<"<", "n", "o", "n", "e", ">">>
SwitchArgs == BranchNames \cup {bMain, sDetached, NoArg}

\* runSwitch, switch.go:37-47, up to the selector's list; cwd is the
\* worktree the command is run in.
SwitchStart(arg, cwd, f) ==
    /\ Start
    /\ cwd \in 1..Len(registry)
    /\ IF arg # NoArg
       THEN /\ f = 0
            /\ cmd' = [Command("switch", "find", FALSE, <<>>) EXCEPT
                          !.target = arg, !.i = cwd]
            /\ UNCHANGED <<log, ret>>
       ELSE \E r \in {List(<<>>, f)} :
            /\ log' = r.log
            /\ ret' = Ret("List", <<>>, r)
            /\ cmd' = IF r.err \/ Len(r.val) = 0
                      THEN [Returned("switch", TRUE, <<>>) EXCEPT !.i = cwd]
                      ELSE [Command("switch", "select", FALSE, <<>>) EXCEPT
                               !.worktrees = r.val, !.i = cwd]
    /\ SameWorld /\ Fixed

\* What ends the selector: esc or ctrl+c, a failure of the terminal
\* program, enter with nothing selected, or enter on an item.
SelectorKeys == {"cancel", "fail", "enter"}

\* SelectWorktree, part_004:268-284, and switch.go:41-46.
SwitchSelect(key, item) ==
    /\ cmd.name = "switch" /\ cmd.pc = "select"
    /\ UNCHANGED ncmd
    /\ item \in 0..Len(cmd.worktrees)
    /\ key # "enter" => item = 0
    /\ cmd' = CASE key = "cancel" ->
                     [cmd EXCEPT !.pc = "returned", !.err = FALSE,
                         !.events = Append(cmd.events, Ev("select", Empty, "cancelled"))]
                [] key = "fail" -> [cmd EXCEPT !.pc = "returned", !.err = TRUE]
                [] OTHER ->
                     [cmd EXCEPT !.pc = "find",
                         !.target = IF item = 0 THEN Empty
                                    ELSE cmd.worktrees[item].Branch]
    /\ UNCHANGED <<log, ret>>
    /\ SameWorld /\ Fixed

\* runSwitch, switch.go:49-52
SwitchFind(f) ==
    /\ cmd.name = "switch" /\ cmd.pc = "find"
    /\ UNCHANGED ncmd
    /\ \E r \in {FindByBranch(cmd.target, <<>>, f)} :
       /\ log' = r.log
       /\ ret' = Ret("FindByBranch", <<cmd.target>>, r)
       /\ cmd' = IF r.err
                 THEN [cmd EXCEPT !.pc = "returned", !.err = TRUE,
                          !.events = Append(cmd.events, Ev("find", cmd.target, FALSE))]
                 ELSE [cmd EXCEPT !.pc = "status", !.dst = r.val.wt.Path,
                          !.events = Append(cmd.events, Ev("find", cmd.target, TRUE))]
    /\ SameWorld /\ Fixed

\* handleStashIfNeeded, switch.go:64-71
SwitchStatus(f) ==
    /\ cmd.name = "switch" /\ cmd.pc = "status"
    /\ UNCHANGED ncmd
    /\ \E r \in {HasUncommittedChanges(cmd.i, <<>>, f)} :
       /\ log' = r.log
       /\ ret' = Ret("HasUncommittedChanges", <<>>, r)
       /\ cmd' = IF r.err THEN [cmd EXCEPT !.pc = "returned", !.err = TRUE]
                 ELSE [cmd EXCEPT !.pc = IF r.val THEN "prompt" ELSE "shell",
                          !.events = Append(cmd.events, Ev("status", cmd.i, r.val))]
    /\ SameWorld /\ Fixed

\* What reader.ReadString returns: a line, or on a read error what was
\* read before it; the error itself is dropped (switch.go:76).
Inputs1 == Responses \cup { <<"y">>, <<>> }

\* A faulty variant of StashWanted: an empty answer accepts.
StashWantedByDefault(input) ==
    LET r == TrimSpace(ToLower(input)) IN ~(r # sY /\ r # sYes /\ r # Empty)

\* switch.go:77-81
StashWanted(input) ==
    LET r == TrimSpace(ToLower(input)) IN ~(r # sY /\ r # sYes)

\* handleStashIfNeeded, switch.go:73-81
SwitchPrompt(input) ==
    /\ cmd.name = "switch" /\ cmd.pc = "prompt"
    /\ UNCHANGED ncmd
    /\ cmd' = [cmd EXCEPT !.pc = IF StashWanted(input) THEN "stash" ELSE "shell",
                          !.answer = input, !.read = TRUE]
    /\ UNCHANGED <<log, ret>>
    /\ SameWorld /\ Fixed

\* handleStashIfNeeded, switch.go:83-91
SwitchStash(f) ==
    /\ cmd.name = "switch" /\ cmd.pc = "stash"
    /\ UNCHANGED ncmd
    /\ \E b \in {GetCurrentBranch(cmd.i, <<>>, f)} :
       IF b.err
       THEN /\ log' = b.log
            /\ ret' = Ret("GetCurrentBranch", <<>>, b)
            /\ cmd' = [cmd EXCEPT !.pc = "returned", !.err = TRUE]
            /\ SameWorld
       ELSE \E o \in {CreateStash(generateStashName(b.val), cmd.i, b.log, f)} :
            /\ World(o)
            /\ log' = o.log
            /\ ret' = Ret("CreateStash", <<generateStashName(b.val)>>, o)
            /\ cmd' = IF o.err THEN [cmd EXCEPT !.pc = "returned", !.err = TRUE]
                      ELSE [cmd EXCEPT !.pc = "shell",
                               !.events = Append(cmd.events,
                                             Ev("stash", generateStashName(b.val), TRUE))]
    /\ Fixed

\* runSwitch, switch.go:58-60, and openShellAt, 100-113.
SwitchShell(ok) ==
    /\ cmd.name = "switch" /\ cmd.pc = "shell"
    /\ UNCHANGED ncmd
    /\ cmd' = [cmd EXCEPT !.pc = "returned", !.err = ~ok,
                          !.events = Append(cmd.events, Ev("shell", cmd.dst, ok))]
    /\ UNCHANGED <<log, ret>>
    /\ SameWorld /\ Fixed

(***************************************************************************)
(* ListBranches (worktree.go:297-364), one loop iteration at a time.       *)
(***************************************************************************)
\* strings.SplitN(s, sep, n) for a one-character separator and n >= 1
RECURSIVE IndexOf(_, _, _)
IndexOf(s, c, i) ==
    IF i > Len(s) THEN 0 ELSE IF s[i] = c THEN i ELSE IndexOf(s, c, i + 1)

RECURSIVE SplitN(_, _, _)
SplitN(s, sep, n) ==
    IF n = 1 \/ IndexOf(s, sep, 1) = 0 THEN <<s>>
    ELSE <<SubSeq(s, 1, IndexOf(s, sep, 1) - 1)>>
         \o SplitN(SubSeq(s, IndexOf(s, sep, 1) + 1, Len(s)), sep, n - 1)

\* type Branch
Branch(name, isRemote, isLocal, commitShort, commitDate) ==
    [Name |-> name, IsRemote |-> isRemote, IsLocal |-> isLocal,
     CommitShort |-> commitShort, CommitDate |-> commitDate]

\* Go's m[k] = v and delete(m, k) on a map held as a function
MapPut(m, k, v) == [x \in DOMAIN m \cup {k} |-> IF x = k THEN v ELSE m[x]]
MapDelete(m, k) == [x \in DOMAIN m \ {k} |-> m[x]]
EmptyMap == [x \in {} |-> x]

\* A faulty variant of LbRemoteLine: the remote HEAD pointer is kept.
LbRemoteLineKeepHead(st, remoteName, commitShort, commitDate) ==
    [st EXCEPT !.remoteBranches =
        MapPut(@, remoteName, Branch(remoteName, TRUE, FALSE, commitShort, commitDate))]

\* A faulty variant of LbRemoteLine: the record goes straight to the result.
LbRemoteLineAppend(st, remoteName, commitShort, commitDate) ==
    IF remoteName = sHEAD THEN st
    ELSE [st EXCEPT !.branches =
            Append(@, Branch(remoteName, TRUE, FALSE, commitShort, commitDate))]

\* lines 325-336
LbRemoteLine(st, remoteName, commitShort, commitDate) ==
    IF remoteName = sHEAD THEN st
    ELSE [st EXCEPT !.remoteBranches =
            MapPut(@, remoteName,
                   Branch(remoteName, TRUE, FALSE, commitShort, commitDate))]

\* lines 338-346
LbLocalLine(st, name, commitShort, commitDate) ==
    [st EXCEPT !.localBranches = @ \cup {name},
               !.branches = Append(@, Branch(name, FALSE, TRUE, commitShort, commitDate))]

\* One iteration of the scanner loop, lines 314-347.
LbLine(st, line) ==
    Bind(SplitN(line, "|", 3), LAMBDA parts :
        IF Len(parts) # 3 THEN st
        ELSE IF HasPrefix(parts[1], sOriginSlash)
        THEN LbRemoteLine(st, TrimPrefix(parts[1], sOriginSlash), parts[2], parts[3])
        ELSE LbLocalLine(st, parts[1], parts[2], parts[3]))

\* A faulty variant of LbMarkOne: the remote-only entry is not dropped.
LbMarkOneKeep(st, i) ==
    IF st.branches[i].Name \in DOMAIN st.remoteBranches
    THEN [st EXCEPT !.branches[i].IsRemote = TRUE]
    ELSE st

\* One iteration of the marking loop, lines 351-356.
LbMarkOne(st, i) ==
    IF st.branches[i].Name \in DOMAIN st.remoteBranches
    THEN [st EXCEPT !.branches[i].IsRemote = TRUE,
                    !.remoteBranches = MapDelete(@, st.branches[i].Name)]
    ELSE st

\* lines 308-310
LbStart ==
    [localBranches |-> {}, remoteBranches |-> EmptyMap, branches |-> <<>>]

\* The output of `git for-each-ref --format=%(refname:short)|%(objectname:short)|
\* %(committerdate:relative) refs/heads/ refs/remotes/origin/` for one reference:
\* the short name of refs/heads/<n> is <n>, that of refs/remotes/origin/<n> is
\* origin/<n>.
sBar == <<"|">>
RefLine(ref) ==
    (IF ref.remote THEN sOriginSlash \o ref.name ELSE ref.name)
    \o sBar \o <<"9">> \o sBar \o <<"2", "d">>

nC == <<"c">>

\* The references a repository may hold: local branches (one of them named
\* origin/c) and branches of the remote origin (with its HEAD pointer).
LocalRef(n) == [remote |-> FALSE, name |-> n]
RemoteRef(n) == [remote |-> TRUE, name |-> n]
RefUniverse ==
    { LocalRef(bA), LocalRef(bB), LocalRef(sOriginSlash \o nC),
      RemoteRef(bA), RemoteRef(bB), RemoteRef(sHEAD) }

\* The orders in which git may list up to MaxRefs of them, each once.
RefLists ==
    { r \in UNION { [1..n -> RefUniverse] : n \in 0..MaxRefs } :
        \A i, j \in 1..Len(r) : i # j => r[i] # r[j] }

LbState(pc, refs, rest, st, i, left, out) ==
    [pc |-> pc, refs |-> refs, rest |-> rest, st |-> st, i |-> i,
     left |-> left, out |-> out]

LbIdle == LbState("idle", <<>>, <<>>, LbStart, 0, {}, <<>>)

Others ==
    UNCHANGED <<registry, dirs, localRefs, remoteRefs, remoteURL, cmd, log, ret, ncmd, pre,
                hk, up, par>>

\* lines 313-348
LbScan ==
    /\ lb.pc = "scan" /\ lb.rest # <<>>
    /\ lb' = [lb EXCEPT !.st = LbLine(lb.st, Head(lb.rest)), !.rest = Tail(lb.rest)]
    /\ UNCHANGED scan /\ Others

\* the end of the input: on to the marking loop
LbScanned ==
    /\ lb.pc = "scan" /\ lb.rest = <<>>
    /\ lb' = [lb EXCEPT !.pc = "mark", !.i = 1]
    /\ UNCHANGED scan /\ Others

\* lines 351-356
LbMark ==
    /\ lb.pc = "mark" /\ lb.i <= Len(lb.st.branches)
    /\ lb' = [lb EXCEPT !.st = LbMarkOne(lb.st, lb.i), !.i = lb.i + 1]
    /\ UNCHANGED scan /\ Others

\* the end of the marking loop: the map is ranged over next
LbMarked ==
    /\ lb.pc = "mark" /\ lb.i > Len(lb.st.branches)
    /\ lb' = [lb EXCEPT !.pc = "append", !.left = DOMAIN lb.st.remoteBranches]
    /\ UNCHANGED scan /\ Others

\* lines 359-361: Go ranges over a map in an unspecified order.
LbAppend ==
    /\ lb.pc = "append"
    /\ \E k \in lb.left :
         lb' = [lb EXCEPT !.st.branches = Append(@, lb.st.remoteBranches[k]),
                          !.left = @ \ {k}]
    /\ UNCHANGED scan /\ Others

\* line 363
LbReturn ==
    /\ lb.pc = "append" /\ lb.left = {}
    /\ lb' = [lb EXCEPT !.pc = "done", !.out = lb.st.branches]
    /\ UNCHANGED scan /\ Others

(***************************************************************************)
(* parseWorktreeList, one scanner iteration at a time.                     *)
(***************************************************************************)
lWtA == sWorktreeSp \o <<"/", "a">>
lWtB == sWorktreeSp \o <<"/", "b">>
lWtNone == sWorktreeSp
lHead == sHeadSp \o <<"1">>
lBranch == sBranchSp \o sRefsHeads \o <<"m">>
lBranchRaw == sBranchSp \o <<"x">>
lBranchTwice == sBranchSp \o sRefsHeads \o sRefsHeads \o <<"m">>
lBare == <<"b", "a", "r", "e">>
lLong == sLockedLine \o <<" ", cRun>>

\* The lines a porcelain input is made of.
PorcelainLines ==
    { lWtA, lWtB, lWtNone, lHead, lBranch, lBranchRaw, lBranchTwice, sDetachedLine,
      lBare, lLong, Empty }

Inputs == UNION { [1..n -> PorcelainLines] : n \in 0..MaxLines }

ScanState(pc, input, rest, acc, out) ==
    [pc |-> pc, input |-> input, rest |-> rest, acc |-> acc, out |-> out,
     err |-> FALSE]

ScanIdle == ScanState("idle", <<>>, <<>>, ScanStart, <<>>)

\* scanner.Scan() of line 71 returns false
ScanOver == IF scan.rest = <<>> THEN TRUE ELSE TooLong(Head(scan.rest))

\* lines 71-89
ScanStep ==
    /\ scan.pc = "scan" /\ ~ScanOver
    /\ scan' = [scan EXCEPT !.acc = ScanLine(scan.acc, Head(scan.rest)),
                            !.rest = Tail(scan.rest)]
    /\ UNCHANGED lb /\ Others

\* lines 91-95
ScanEnd ==
    /\ scan.pc = "scan" /\ ScanOver
    /\ scan' = [scan EXCEPT !.pc = "done",
                            !.out = Flush(scan.acc.worktrees, scan.acc.current),
                            !.err = (scan.rest # <<>>)]
    /\ UNCHANGED lb /\ Others

(***************************************************************************)
(* Pre-validation: package validate and rootCmd.PersistentPreRunE.         *)
(***************************************************************************)
\* Where the current directory is: in a work tree, inside a .git
\* directory, in a bare repository, in no repository, or removed.
Places == {"worktree", "gitdir", "bare", "none", "gone"}

\* `git rev-parse --is-inside-work-tree` prints true or false and exits 0
\* anywhere in a repository; outside one, or without a current directory,
\* it exits 128.
RevParseFails(place) == place \in {"none", "gone"}

\* os.Getwd fails when the current directory has been removed.
GetwdFails(place) == place = "gone"

\* A faulty variant of IsGitRepository: the probe's answer is not looked at.
IsGitRepositoryAnywhere(place, fault) == TRUE

\* IsGitRepository; fault: git cannot be run at all.
IsGitRepository(place, fault) == ~(fault \/ RevParseFails(place))

\* What a directory holds under the name .wk.yaml: nothing, a file that
\* decodes into Config, a file that is not YAML, YAML of another shape,
\* or something os.ReadFile cannot read (a directory).
Files == {"absent", "valid", "syntax", "mistyped", "unreadable"}

\* The directories from the current one up to the root, nearest first.
Chains == UNION {[1..n -> Files] : n \in 1..MaxDepth}

\* config.FindConfig: the nearest directory where os.Stat succeeds.
RECURSIVE FindConfigFrom(_, _)
FindConfigFrom(chain, i) ==
    IF i > Len(chain) THEN [err |-> TRUE, val |-> 0]
    ELSE IF chain[i] # "absent" THEN [err |-> FALSE, val |-> i]
    ELSE FindConfigFrom(chain, i + 1)

FindConfig(chain) == FindConfigFrom(chain, 1)

\* config.Load: the error of os.ReadFile or of yaml.Unmarshal.
Load(file) == [err |-> file # "valid"]

\* A faulty variant of CheckConfig: the file found is not loaded.
CheckConfigUnloaded(place, chain) ==
    IF GetwdFails(place) THEN [exists |-> FALSE, valid |-> FALSE, err |-> TRUE]
    ELSE [exists |-> ~FindConfig(chain).err, valid |-> ~FindConfig(chain).err,
          err |-> FALSE]

CheckConfig(place, chain) ==
    IF GetwdFails(place) THEN [exists |-> FALSE, valid |-> FALSE, err |-> TRUE]
    ELSE IF FindConfig(chain).err THEN [exists |-> FALSE, valid |-> FALSE, err |-> FALSE]
    ELSE IF Load(chain[FindConfig(chain).val]).err
         THEN [exists |-> TRUE, valid |-> FALSE, err |-> TRUE]
    ELSE [exists |-> TRUE, valid |-> TRUE, err |-> FALSE]

\* The commands of rootCmd, with cobra's own help and completion.
CommandNames ==
    {"help", "completion", "version", "update", "init", "new", "list", "remove",
     "switch", "organize", "setup"}

\* The --help flag on the command line: absent, --help, or --help=false.
HelpFlags == {"unset", "true", "false"}

Invocation(name, help) == [name |-> name, help |-> help]

\* helpFlag.Changed
HelpChanged(c) == c.help # "unset"

isHelpCommand(c) == c.name = "help" \/ HelpChanged(c)

shouldSkipValidation(c) == c.name \in {"version", "update", "completion"}

Validated(err, hint) == [err |-> err, hint |-> hint]

RunPreValidation(c, place, fault, chain) ==
    IF isHelpCommand(c) THEN Validated(FALSE, FALSE)
    ELSE IF shouldSkipValidation(c) THEN Validated(FALSE, FALSE)
    ELSE IF ~IsGitRepository(place, fault) THEN Validated(TRUE, FALSE)
    ELSE IF c.name = "init" THEN Validated(FALSE, FALSE)
    ELSE IF ~CheckConfig(place, chain).exists THEN Validated(FALSE, TRUE)
    ELSE IF ~CheckConfig(place, chain).valid THEN Validated(TRUE, FALSE)
    ELSE Validated(FALSE, FALSE)

shouldCheckUpdate(c) == c.name \notin {"help", "version", "update", "completion"}

PreState(pc, c, place, fault, chain, err, hint, notice) ==
    [pc |-> pc, cmd |-> c, place |-> place, fault |-> fault, chain |-> chain,
     err |-> err, hint |-> hint, notice |-> notice]

PreIdle ==
    PreState("idle", Invocation("help", "unset"), "none", FALSE, <<"absent">>,
             FALSE, FALSE, FALSE)

PreRest ==
    UNCHANGED <<scan, lb, registry, dirs, localRefs, remoteRefs, remoteURL, cmd, log, ret,
                ncmd, hk, up, par>>

\* rootCmd.Execute: cobra answers --help itself, before any hook runs.
Dispatch ==
    /\ pre.pc = "start"
    /\ pre' = [pre EXCEPT !.pc = IF pre.cmd.help = "true" THEN "helped" ELSE "prerun"]
    /\ PreRest

\* rootCmd.PersistentPreRunE; newer: whether the update check found a release.
PersistentPreRunE(newer) ==
    /\ pre.pc = "prerun"
    /\ \E v \in {RunPreValidation(pre.cmd, pre.place, pre.fault, pre.chain)} :
         IF v.err
         THEN /\ ~newer
              /\ pre' = [pre EXCEPT !.pc = "failed", !.err = TRUE, !.hint = v.hint]
         ELSE /\ newer => shouldCheckUpdate(pre.cmd)
              /\ pre' = [pre EXCEPT !.pc = "validated", !.hint = v.hint,
                                    !.notice = newer]
    /\ PreRest

\* The command's RunE, which cobra calls when the hook returned nil.
RunBody ==
    /\ pre.pc = "validated"
    /\ pre' = [pre EXCEPT !.pc = "ran"]
    /\ PreRest

\* Execute, lines 72-76: os.Exit(1) on the hook's error.
ExitFailure ==
    /\ pre.pc = "failed"
    /\ pre' = [pre EXCEPT !.pc = "exited"]
    /\ PreRest

(***************************************************************************)
(* Package hooks: CopyFiles and RunPostHooks, one loop iteration at a time. *)
(***************************************************************************)
\* The entries a copy list may name, and what os.Stat finds at the source:
\* a file, a directory, nothing, or an error other than not-exist.
FileNames == {"x", "y"}
SourceKinds == {"file", "dir", "missing", "denied"}

\* The strings a post_hooks list may hold.
HookCommands == {"c1", "c2"}

\* The lists of up to MaxList elements of a set.
ListsOf(S) == UNION {[1..n -> S] : n \in 0..MaxList}

NoError == [op |-> "nil", what |-> ""]
Errorf(op, what) == [op |-> op, what |-> what]

HkRest ==
    UNCHANGED <<scan, lb, registry, dirs, localRefs, remoteRefs, remoteURL, cmd, log, ret,
                ncmd, pre, up, par>>

CopyState(files, kinds) ==
    [pc |-> "copy", op |-> "CopyFiles", files |-> files, kinds |-> kinds, i |-> 1,
     dst |-> [n \in FileNames |-> "absent"], trace |-> <<>>, err |-> NoError]

\* A faulty variant of CopyOne: a source that is missing ends the copy.
CopyOneStrict(h, failed, partial) ==
    LET file == h.files[h.i]
        kind == h.kinds[file]
    IN IF kind \in {"missing", "denied"}
       THEN [h EXCEPT !.pc = "returned", !.err = Errorf("stat", file)]
       ELSE IF failed
       THEN [h EXCEPT !.pc = "returned",
                !.dst[file] = IF partial THEN "partial" ELSE @,
                !.err = Errorf(IF kind = "dir" THEN "copy directory" ELSE "copy file",
                               file)]
       ELSE [h EXCEPT !.i = h.i + 1, !.dst[file] = "copied",
                !.trace = Append(h.trace, <<h.i, "copied">>)]

\* CopyFiles, cache.go:153-175: the body of the loop for entry h.i. failed:
\* copyFile or copyDir returns an error; partial: it does so after having
\* written part of the destination.
CopyOne(h, failed, partial) ==
    LET file == h.files[h.i]
        kind == h.kinds[file]
    IN IF kind = "missing"
       THEN [h EXCEPT !.i = h.i + 1, !.trace = Append(h.trace, <<h.i, "skipped">>)]
       ELSE IF kind = "denied"
       THEN [h EXCEPT !.pc = "returned", !.err = Errorf("stat", file)]
       ELSE IF failed
       THEN [h EXCEPT !.pc = "returned",
                !.dst[file] = IF partial THEN "partial" ELSE @,
                !.err = Errorf(IF kind = "dir" THEN "copy directory" ELSE "copy file",
                               file)]
       ELSE [h EXCEPT !.i = h.i + 1, !.dst[file] = "copied",
                !.trace = Append(h.trace, <<h.i, "copied">>)]

CopyStep(failed, partial) ==
    /\ hk.pc = "copy" /\ hk.i <= Len(hk.files)
    /\ partial => failed
    /\ failed => hk.kinds[hk.files[hk.i]] \in {"file", "dir"}
    /\ hk' = CopyOne(hk, failed, partial)
    /\ HkRest

\* CopyFiles, cache.go:177: return nil after the loop.
CopyReturn ==
    /\ hk.pc = "copy" /\ hk.i > Len(hk.files)
    /\ hk' = [hk EXCEPT !.pc = "returned"]
    /\ HkRest

HookState(dir, commands) ==
    [pc |-> "hooks", op |-> "RunPostHooks", dir |-> dir, commands |-> commands, i |-> 1,
     running |-> 0, started |-> <<>>, err |-> NoError]

\* RunPostHooks, cache.go:232-239: exec.Command("sh", "-c", cmdStr) with
\* cmd.Dir = dir, started by cmd.Run; startOk is false when the shell
\* cannot be started.
HookStart(startOk) ==
    /\ hk.pc = "hooks" /\ hk.running = 0 /\ hk.i <= Len(hk.commands)
    /\ hk' = IF startOk
             THEN [hk EXCEPT !.running = hk.i,
                      !.started = Append(hk.started,
                                     [argv |-> <<"sh", "-c", hk.commands[hk.i]>>,
                                      dir |-> hk.dir, i |-> hk.i])]
             ELSE [hk EXCEPT !.pc = "returned",
                      !.err = Errorf("command failed", hk.commands[hk.i])]
    /\ HkRest

\* A faulty variant of AfterHook: a failed command is reported and the next one runs.
AfterHookKeepGoing(h, exit) ==
    [h EXCEPT !.running = 0, !.i = h.i + 1,
              !.err = IF exit # 0 THEN Errorf("command failed", h.commands[h.i]) ELSE @]

\* RunPostHooks, cache.go:239-242: cmd.Run returns when the command exits.
AfterHook(h, exit) ==
    IF exit # 0
    THEN [h EXCEPT !.pc = "returned", !.running = 0,
             !.err = Errorf("command failed", h.commands[h.i])]
    ELSE [h EXCEPT !.running = 0, !.i = h.i + 1]

HookWait(exit) ==
    /\ hk.pc = "hooks" /\ hk.running # 0
    /\ hk' = AfterHook(hk, exit)
    /\ HkRest

\* RunPostHooks, cache.go:244: return nil after the loop.
HookReturn ==
    /\ hk.pc = "hooks" /\ hk.running = 0 /\ hk.i > Len(hk.commands)
    /\ hk' = [hk EXCEPT !.pc = "returned"]
    /\ HkRest

(***************************************************************************)
(* Package updater: version comparison (check.go).                         *)
(***************************************************************************)
DigitChars == <<"0", "1", "2", "3", "4", "5", "6", "7", "8", "9">>

IsDigit(c) == \E d \in 1..10 : DigitChars[d] = c
DigitValue(c) == (CHOOSE d \in 1..10 : DigitChars[d] = c) - 1

\* The value of the longest run of digits s starts with, from acc on.
RECURSIVE ScanDigits(_, _)
ScanDigits(s, acc) ==
    IF s = <<>> THEN acc
    ELSE IF IsDigit(Head(s)) THEN ScanDigits(Tail(s), 10 * acc + DigitValue(Head(s)))
    ELSE acc

\* fmt.Sscanf(part, "%d", &num) into a zero num: an optional sign and the
\* digits that follow; num stays 0 when there is no digit.
Sscanf(part) ==
    IF part = <<>> THEN 0
    ELSE IF Head(part) = "-" THEN 0 - ScanDigits(Tail(part), 0)
    ELSE IF Head(part) = "+" THEN ScanDigits(Tail(part), 0)
    ELSE ScanDigits(part, 0)

\* compareVersions, lines 98-113: the loop from component i to component n.
RECURSIVE CompareFrom(_, _, _, _)
CompareFrom(partsA, partsB, i, n) ==
    IF i > n THEN 0
    ELSE LET numA == IF i <= Len(partsA) THEN Sscanf(partsA[i]) ELSE 0
             numB == IF i <= Len(partsB) THEN Sscanf(partsB[i]) ELSE 0
         IN IF numA > numB THEN 1
            ELSE IF numA < numB THEN 0 - 1
            ELSE CompareFrom(partsA, partsB, i + 1, n)

\* A faulty variant of compareVersions: the patch component is not compared.
compareVersionsMinor(a, b) == CompareFrom(Split(a, "."), Split(b, "."), 1, 2)

\* compareVersions, lines 94-116
compareVersions(a, b) == CompareFrom(Split(a, "."), Split(b, "."), 1, 3)

sDev == <<"d", "e", "v">>
sV == <<"v">>

\* isNewerVersion, lines 81-90
isNewerVersion(current, latest) ==
    IF TrimPrefix(current, sV) = sDev \/ TrimPrefix(current, sV) = Empty THEN TRUE
    ELSE /\ TrimPrefix(latest, sV) # TrimPrefix(current, sV)
         /\ compareVersions(TrimPrefix(latest, sV), TrimPrefix(current, sV)) > 0

\* strconv.Itoa for a natural number
RECURSIVE Itoa(_)
Itoa(n) == IF n < 10 THEN <<DigitChars[n + 1]>> ELSE Itoa(n \div 10) \o <<DigitChars[(n % 10) + 1]>>

\* The version numbers of up to MaxParts components, and the ways one is
\* written: as it is, with a leading v, with a pre-release suffix, with one
\* more component (7); and the versions that carry no number.
ComponentValues == {0, 2, 10}
VersionNumbers == UNION {[1..n -> ComponentValues] : n \in 1..MaxParts}
NumberForms == {"plain", "v", "rc", "more"}
WordForms == {"dev", "vdev", "empty", "vonly"}
Version(nums, form) == [nums |-> nums, form |-> form]
Versions ==
    {Version(nums, form) : nums \in VersionNumbers, form \in NumberForms}
        \cup {Version(<<0>>, form) : form \in WordForms}

RECURSIVE Dotted(_)
Dotted(nums) ==
    IF Len(nums) = 1 THEN Itoa(nums[1])
    ELSE Itoa(Head(nums)) \o <<".">> \o Dotted(Tail(nums))

\* The string a version is written as.
Written(v) ==
    CASE v.form = "plain" -> Dotted(v.nums)
      [] v.form = "v" -> sV \o Dotted(v.nums)
      [] v.form = "rc" -> sV \o Dotted(v.nums) \o <<"-", "r", "c", "1">>
      [] v.form = "more" -> Dotted(v.nums) \o <<".", "7">>
      [] v.form = "dev" -> sDev
      [] v.form = "vdev" -> sV \o sDev
      [] v.form = "empty" -> Empty
      [] v.form = "vonly" -> sV

UpRest ==
    UNCHANGED <<scan, lb, registry, dirs, localRefs, remoteRefs, remoteURL, cmd, log, ret,
                ncmd, pre, hk, par>>

\* CheckForUpdate, line 49, on the two versions; and compareVersions on the
\* arguments of line 89, both ways round.
CompareCall ==
    /\ up.pc = "versions"
    /\ up' = [up EXCEPT !.pc = "compared",
                !.newer = isNewerVersion(Written(up.current), Written(up.latest)),
                !.cmp = compareVersions(TrimPrefix(Written(up.latest), sV),
                                        TrimPrefix(Written(up.current), sV)),
                !.rev = compareVersions(TrimPrefix(Written(up.current), sV),
                                        TrimPrefix(Written(up.latest), sV))]
    /\ UpRest

(***************************************************************************)
(* Package updater: the release check and its cache (check.go, cache.go).  *)
(***************************************************************************)
\* Time in hours; cacheTTL = 24 * time.Hour.
cacheTTL == 24
Now == 100

sV1 == <<"v", "1">>
sV2 == <<"v", "2">>
RunningVersions == {sV1, sV2, sDev}

\* What the GitHub API answers: the latest release's tag, and whether one
\* of its assets is named for this platform.
Release(tag, asset) == [TagName |-> tag, asset |-> asset]
Releases == {Release(tag, asset) : tag \in {sV1, sV2}, asset \in BOOLEAN}

sURL == <<"u", "r", "l">>

\* type Info
Info(current, latest, available, url) ==
    [CurrentVersion |-> current, LatestVersion |-> latest,
     UpdateAvailable |-> available, DownloadURL |-> url]

\* findDownloadURL, check.go:119-140
findDownloadURL(release) == IF release.asset THEN sURL \o release.TagName ELSE Empty

\* CheckForUpdate, check.go:46-57, on the release fetched.
CheckForUpdate(currentVersion, release) ==
    Info(currentVersion, release.TagName,
         isNewerVersion(currentVersion, release.TagName),
         IF isNewerVersion(currentVersion, release.TagName)
         THEN findDownloadURL(release) ELSE Empty)

\* type CacheEntry, and what saveCache writes (cache.go:90-97).
CacheEntry(checkedAt, info) ==
    [state |-> "entry", CheckedAt |-> checkedAt, info |-> info]

NoInfo == Info(Empty, Empty, FALSE, Empty)

\* A cache file that is missing ("absent") or is not JSON ("corrupt").
NoEntry(state) == [state |-> state, CheckedAt |-> 0, info |-> NoInfo]

\* The cache file: missing, not JSON, or an entry.
CacheFiles ==
    {NoEntry("absent"), NoEntry("corrupt")}
        \cup {CacheEntry(Now - age, CheckForUpdate(v, r)) :
                 age \in {0 - 1, 0, cacheTTL - 1, cacheTTL, cacheTTL + 1},
                 v \in RunningVersions, r \in Releases}

\* loadCache, cache.go:60-77; home: os.UserHomeDir succeeds.
loadCache(file, home) ==
    IF ~home \/ file.state # "entry" THEN [err |-> TRUE, val |-> file]
    ELSE [err |-> FALSE, val |-> file]

\* A faulty variant of isValid: the recorded version is not compared.
isValidAnyVersion(c, currentVersion, now) == now - c.CheckedAt < cacheTTL

\* CacheEntry.isValid, cache.go:113-118
isValid(c, currentVersion, now) ==
    IF c.info.CurrentVersion # currentVersion THEN FALSE
    ELSE now - c.CheckedAt < cacheTTL

\* CacheEntry.toInfo, cache.go:121-129
toInfo(c) == c.info

CheckState(version, file, home) ==
    [pc |-> "load", op |-> "CachedCheck", version |-> version, cache |-> file,
     cache0 |-> file, home |-> home, fetched |-> FALSE, info |-> NoInfo, err |-> FALSE]

\* CachedCheck, cache.go:27-30
CachedLoad ==
    /\ up.pc = "load"
    /\ \E c \in {loadCache(up.cache, up.home)} :
         up' = IF ~c.err
               THEN IF isValid(c.val, up.version, Now)
                    THEN [up EXCEPT !.pc = "returned", !.info = toInfo(c.val)]
                    ELSE [up EXCEPT !.pc = "fetch"]
               ELSE [up EXCEPT !.pc = "fetch"]
    /\ UpRest

\* CachedCheck, cache.go:32-35; fetched: fetchLatestRelease returns a release.
CachedFetch(fetched, release) ==
    /\ up.pc = "fetch"
    /\ up' = IF fetched
             THEN [up EXCEPT !.pc = "save", !.fetched = TRUE,
                      !.info = CheckForUpdate(up.version, release)]
             ELSE [up EXCEPT !.pc = "returned", !.fetched = TRUE, !.err = TRUE]
    /\ UpRest

\* saveCache, cache.go:80-110, whose error CachedCheck drops (line 37).
\* written: "whole" when os.WriteFile succeeds, "torn" when it fails after
\* truncating the file, "none" when nothing is written.
saveCache(file, info, home, written) ==
    IF ~home \/ written = "none" THEN file
    ELSE IF written = "torn" THEN NoEntry("corrupt")
    ELSE CacheEntry(Now, info)

\* CachedCheck, cache.go:37-38
CachedSave(written) ==
    /\ up.pc = "save"
    /\ up' = [up EXCEPT !.pc = "returned",
                !.cache = saveCache(up.cache, up.info, up.home, written)]
    /\ UpRest

(***************************************************************************)
(* wk update (cmd/update.go) and the installation (updater/install.go).    *)
(***************************************************************************)
\* strings.Contains
ContainsStr(s, substr) ==
    \E i \in 1..(Len(s) - Len(substr) + 1) : SubSeq(s, i, i + Len(substr) - 1) = substr

sCellar == <<"C", "e", "l", "l", "a", "r">>
sHomebrew == <<"h", "o", "m", "e", "b", "r", "e", "w">>
sUsrLocalBin == <<"/", "u", "s", "r", "/", "l", "o", "c", "a", "l", "/", "b", "i", "n">>
sGo == <<"g", "o">>
sBin == <<"b", "i", "n">>
sUserHome == <<"/", "h", "o", "m", "e", "/", "u">>
sGoPath == <<"/", "g">>

\* Where the running binary may be: os.Executable, symbolic links resolved.
ExecPaths ==
    { <<"/", "u", "s", "r", "/", "l", "o", "c", "a", "l", "/", "b", "i", "n", "/", "w", "k">>,
      <<"/", "u", "s", "r", "/", "l", "o", "c", "a", "l", "/", "C", "e", "l", "l", "a", "r", "/", "w", "k", "/", "1", "/", "b", "i", "n", "/", "w", "k">>,
      <<"/", "o", "p", "t", "/", "h", "o", "m", "e", "b", "r", "e", "w", "/", "b", "i", "n", "/", "w", "k">>,
      <<"/", "h", "o", "m", "e", "/", "u", "/", "g", "o", "/", "b", "i", "n", "/", "w", "k">>,
      <<"/", "g", "/", "b", "i", "n", "/", "w", "k">>,
      <<"/", "h", "o", "m", "e", "/", "u", "/", "b", "i", "n", "/", "w", "k">> }

\* isHomebrewInstall, install.go:61-70
isHomebrewInstall(execPath) ==
    ContainsStr(execPath, sCellar) \/ ContainsStr(execPath, sHomebrew)

\* DetectInstallMethod, install.go:26-58. exeOk: os.Executable and
\* filepath.EvalSymlinks succeed; home is empty when os.UserHomeDir fails.
DetectInstallMethod(exeOk, execPath, gopath, home) ==
    IF ~exeOk THEN "unknown"
    ELSE IF isHomebrewInstall(execPath) THEN "homebrew"
    ELSE IF HasPrefix(execPath,
                      Join(IF gopath = Empty THEN Join(home, sGo) ELSE gopath, sBin))
    THEN "go"
    ELSE IF HasPrefix(execPath, sUsrLocalBin) THEN "binary"
    ELSE "unknown"

\* The files an installation touches: the binary at the executable path
\* ("old", "new", "copied" before chmod, "partial", "none"), the .backup
\* file beside it ("old", "stale", "none") and the update-check cache.
Disk(exec, backup, cache) == [exec |-> exec, backup |-> backup, cache |-> cache]

\* The operations whose result the installation ignores.
BestEffort == {"remove", "restore", "cleanup"}

\* The state of one wk update.
UpdateState(execPath, exeOk, gopath, home, force, version, writable, disk) ==
    [pc |-> "detect", op |-> "update", execPath |-> execPath, exeOk |-> exeOk,
     gopath |-> gopath, home |-> home, force |-> force, version |-> version,
     writable |-> writable, disk |-> disk, disk0 |-> disk, method |-> "", info |-> NoInfo,
     answer |-> Empty, read |-> FALSE, called |-> FALSE, sudo |-> FALSE,
     backedUp |-> FALSE, dropped |-> {}, err |-> FALSE]

UpdateReturn(c, err) == [c EXCEPT !.pc = "returned", !.err = err]

\* runUpdate, update.go:34-46
UpdateDetect ==
    /\ up.pc = "detect"
    /\ \E method \in {DetectInstallMethod(up.exeOk, up.execPath, up.gopath, up.home)} :
         up' = IF method \in {"homebrew", "go"}
               THEN UpdateReturn([up EXCEPT !.method = method], FALSE)
               ELSE [up EXCEPT !.method = method, !.pc = "check"]
    /\ UpRest

\* A faulty variant of AfterCheck: a release without a download for the
\* platform goes on to the prompt.
AfterCheckWithoutURL(c, fetched, info) ==
    IF ~fetched THEN UpdateReturn(c, TRUE)
    ELSE IF ~info.UpdateAvailable THEN UpdateReturn([c EXCEPT !.info = info], FALSE)
    ELSE [c EXCEPT !.info = info, !.pc = IF c.force THEN "perform" ELSE "prompt"]

\* runUpdate, update.go:50-68, on what CheckForUpdate returned.
AfterCheck(c, fetched, info) ==
    IF ~fetched THEN UpdateReturn(c, TRUE)
    ELSE IF ~info.UpdateAvailable THEN UpdateReturn([c EXCEPT !.info = info], FALSE)
    ELSE IF info.DownloadURL = Empty THEN UpdateReturn([c EXCEPT !.info = info], FALSE)
    ELSE [c EXCEPT !.info = info, !.pc = IF c.force THEN "perform" ELSE "prompt"]

\* runUpdate, update.go:50-68; fetched: fetchLatestRelease returns a release.
UpdateCheck(fetched, release) ==
    /\ up.pc = "check"
    /\ up' = AfterCheck(up, fetched, CheckForUpdate(up.version, release))
    /\ UpRest

\* runUpdate, update.go:69-79: the prompt. A failed read leaves what was
\* read so far in response (line 72 drops the error).
UpdatePrompt(response) ==
    /\ up.pc = "prompt"
    /\ up' = IF ~Confirmed(response)
             THEN UpdateReturn([up EXCEPT !.answer = response, !.read = TRUE], FALSE)
             ELSE [up EXCEPT !.answer = response, !.read = TRUE, !.pc = "perform"]
    /\ UpRest

\* What may stop PerformUpdate before it installs: the temporary
\* directory, the download, the extraction.
Preparations == {"ready", "mkdirtemp", "download", "extract"}

\* runUpdate, update.go:83-85, and PerformUpdate, install.go:73-116, up to
\* the choice between installWithSudo and installDirect.
UpdatePerform(prepared) ==
    /\ up.pc = "perform"
    /\ up' = IF up.info.DownloadURL = Empty \/ ~up.exeOk \/ prepared # "ready"
             THEN UpdateReturn([up EXCEPT !.called = TRUE], TRUE)
             ELSE [up EXCEPT !.called = TRUE, !.sudo = ~up.writable, !.pc = "backup"]
    /\ UpRest

\* os.Rename(execPath, backupPath) or sudo mv, install.go:192 and 140:
\* a backup left by an earlier run is replaced.
InstallBackup(ok) ==
    /\ up.pc = "backup"
    /\ up' = IF ~ok THEN UpdateReturn(up, TRUE)
             ELSE [up EXCEPT !.pc = "copy", !.backedUp = TRUE,
                      !.disk = Disk("none", up.disk.exec, up.disk.cache)]
    /\ UpRest

\* A faulty variant of Rollback: the copy is removed, the backup stays
\* where it is.
RollbackRemoveOnly(disk, remove, failing) ==
    IF "remove" \in failing THEN disk ELSE [disk EXCEPT !.exec = "none"]

\* The rollback, install.go:198, 204-205 and 211-212 (installWithSudo: 156,
\* 167-168, 176-177): the copy is removed where the code removes it, and
\* the backup is renamed over the executable path; failing: the
\* operations that fail.
Rollback(disk, remove, failing) ==
    LET removed == IF remove /\ "remove" \notin failing
                   THEN [disk EXCEPT !.exec = "none"] ELSE disk
    IN IF "restore" \in failing THEN removed
       ELSE [removed EXCEPT !.exec = disk.backup, !.backup = "none"]

\* The ignored operations of ops that failed.
Dropped(c, ops, failing) == [c EXCEPT !.dropped = c.dropped \cup (ops \cap failing)]

\* copyFile(newBinaryPath, execPath) or sudo cp, install.go:196-200 and
\* 150-158; written: what a failed copy leaves at the executable path.
InstallCopy(ok, written, failing) ==
    /\ up.pc = "copy"
    /\ up' = IF ok
             THEN [up EXCEPT !.pc = "chmod", !.disk.exec = "copied"]
             ELSE UpdateReturn(
                      Dropped([up EXCEPT !.disk = Rollback([up.disk EXCEPT !.exec = written],
                                                           FALSE, failing)],
                              {"restore"}, failing),
                      TRUE)
    /\ UpRest

\* os.Chmod(execPath, 0755) or sudo chmod, install.go:203-207 and 161-170
InstallChmod(ok, failing) ==
    /\ up.pc = "chmod"
    /\ up' = IF ok
             THEN [up EXCEPT !.pc = "verify", !.disk.exec = "new"]
             ELSE UpdateReturn(
                      Dropped([up EXCEPT !.disk = Rollback(up.disk, TRUE, failing)],
                              {"remove", "restore"}, failing),
                      TRUE)
    /\ UpRest

\* InvalidateCache, cache.go:132-138: without a home directory the path of
\* the cache is unknown and nothing is removed.
InvalidateCache(disk, home) ==
    IF home = Empty THEN disk ELSE [disk EXCEPT !.cache = NoEntry("absent")]

\* Removing the backup, install.go:217 and 181.
RemoveBackup(disk, failing) ==
    IF "cleanup" \in failing THEN disk ELSE [disk EXCEPT !.backup = "none"]

\* The verification and the end of the installation, install.go:210-222
\* and 173-184.
InstallVerify(ok, failing) ==
    /\ up.pc = "verify"
    /\ up' = IF ok
             THEN UpdateReturn(
                      Dropped([up EXCEPT !.disk = InvalidateCache(
                                                      RemoveBackup(up.disk, failing),
                                                      up.home)],
                              {"cleanup"}, failing),
                      FALSE)
             ELSE UpdateReturn(
                      Dropped([up EXCEPT !.disk = Rollback(up.disk, TRUE, failing)],
                              {"remove", "restore"}, failing),
                      TRUE)
    /\ UpRest

(***************************************************************************)
(* The repositories the commands start from.                               *)
(***************************************************************************)
pPR == <<"/", "p", "/", "r">>
pR == <<"/", "r">>
pWA == <<"/", "w", "/", "a">>
pWD == <<"/", "w", "/", "d">>
pSibling == sSlash \o <<"r">> \o sDotWorktrees \o <<"2">>
cOne == <<"1">>

uSsh == <<"g", "i", "t", "@", "h", ":", "o", "/", "x", ".", "g", "i", "t">>
uHttpsSlash == <<"h", "t", "t", "p", "s", ":", "/", "/", "h", "/", "o", "/", "x", "/">>

Entry(path, branch, dirty, locked) ==
    [Path |-> path, Commit |-> cOne, Branch |-> branch,
     dirty |-> dirty, locked |-> locked]

\* Linked worktrees made with plain git, outside the standard location.
ForeignSets ==
    { <<>>,
      <<Entry(pWA, bA, TRUE, FALSE)>>,
      <<Entry(pWD, Empty, FALSE, TRUE), Entry(pSibling, Empty, FALSE, FALSE)>>,
      <<Entry(pWA, bA, FALSE, FALSE), Entry(pWD, Empty, FALSE, FALSE)>> }

NoURL == [set |-> FALSE, url |-> Empty]
URL(u) == [set |-> TRUE, url |-> u]

\* A primary worktree and the remote.origin.url configured in it.
Origins == { <<pPR, NoURL>>, <<pPR, URL(uSsh)>>, <<pR, URL(uHttpsSlash)>> }


Init ==
    /\ scan = ScanIdle
    /\ lb = LbIdle
    /\ \E origin \in Origins, foreign \in ForeignSets :
         /\ registry = <<Entry(origin[1], bMain, FALSE, FALSE)>> \o foreign
         /\ remoteURL = origin[2]
         /\ dirs = {foreign[i].Path : i \in 1..Len(foreign)}
         /\ localRefs = {bMain}
               \cup ({foreign[i].Branch : i \in 1..Len(foreign)} \ {Empty})
    /\ remoteRefs = {bB}
    /\ cmd = Fresh
    /\ log = <<>>
    /\ ret = NoRet
    /\ ncmd = 0
    /\ pre = PreIdle
    /\ hk = Idle /\ up = Idle /\ par = Idle

Next ==
    \/ \E b \in BranchNames, f \in Faults : AddCall(b, f)
    \/ \E t \in Targets, force \in BOOLEAN, f \in Faults : RemoveCmd(t, force, f)
    \/ \E f \in Faults : OrganizeStart(f)
    \/ \E f \in Faults : OrganizeClassify(f)
    \/ \E f \in Faults : OrganizeShow(f)
    \/ \E r \in Responses, readOk \in BOOLEAN : OrganizeConfirm(r, readOk)
    \/ \E f \in Faults : OrganizeMove(f)
    \/ Exit

Spec == Init /\ [][Next]_vars


\* The remote URLs of the two common forms, by their parts:
\* scheme://host/owner/repo[.git] and user@host:owner/repo[.git].
URLHeads ==
    { <<"h", "t", "t", "p", "s", ":", "/", "/", "h", "/">>, <<"h", "t", "t", "p", "s", ":", "/", "/", "h", ".", "i", "o", "/">>, <<"s", "s", "h", ":", "/", "/", "g", "i", "t", "@", "h", "/">>,
      <<"g", "i", "t", "@", "h", ":">>, <<"g", "i", "t", "@", "h", ".", "i", "o", ":">>, <<"u", "@", "h", ":">> }
URLOwners == { <<"o">>, <<"o", ".", "p">> }
URLRepos == { <<"x">>, <<"x", ".", "y">>, <<"x", "g", "i", "t">>, <<"x", ".", "g", "i", "t">> }
URLParts ==
    { p \in [head : URLHeads, owner : URLOwners, repo : URLRepos, git : BOOLEAN] :
        HasSuffix(p.repo, sDotGit) => p.git }

ComposeURL(p) ==
    p.head \o p.owner \o sSlash \o p.repo \o (IF p.git THEN sDotGit ELSE <<>>)

\* extractRepoName called on the configured URL, as GetRepoName does at line 194.
ExtractCall ==
    /\ ret.op = "none"
    /\ ret' = [op |-> "extractRepoName", args |-> <<remoteURL.url>>, err |-> FALSE,
               val |-> extractRepoName(remoteURL.url)]
    /\ UNCHANGED <<scan, lb, registry, dirs, localRefs, remoteRefs, remoteURL, cmd, log,
                   ncmd, pre, hk, up, par>>

InitExtract ==
    /\ scan = ScanIdle
    /\ lb = LbIdle
    /\ registry = <<Entry(pPR, bMain, FALSE, FALSE)>>
    /\ dirs = {}
    /\ localRefs = {bMain}
    /\ remoteRefs = {}
    /\ \E p \in URLParts : remoteURL = URL(ComposeURL(p))
    /\ cmd = Fresh
    /\ log = <<>>
    /\ ret = NoRet
    /\ ncmd = 0
    /\ pre = PreIdle
    /\ hk = Idle /\ up = Idle /\ par = Idle

NextExtract == ExtractCall

SpecExtract == InitExtract /\ [][NextExtract]_vars

\* One invocation of wk, of every command, from every kind of directory.
InitValidate ==
    /\ scan = ScanIdle
    /\ lb = LbIdle
    /\ registry = <<Entry(pPR, bMain, FALSE, FALSE)>>
    /\ dirs = {}
    /\ localRefs = {bMain}
    /\ remoteRefs = {}
    /\ remoteURL = NoURL
    /\ cmd = Fresh
    /\ log = <<>>
    /\ ret = NoRet
    /\ ncmd = 0
    /\ \E name \in CommandNames, help \in HelpFlags, place \in Places,
          fault \in BOOLEAN, chain \in Chains :
         pre = PreState("start", Invocation(name, help), place, fault, chain,
                        FALSE, FALSE, FALSE)
    /\ hk = Idle /\ up = Idle /\ par = Idle

NextValidate ==
    \/ Dispatch
    \/ \E newer \in BOOLEAN : PersistentPreRunE(newer)
    \/ RunBody
    \/ ExitFailure

SpecValidate == InitValidate /\ [][NextValidate]_vars

\* wk switch, run from any worktree of the repository.
NextSwitch ==
    \/ \E arg \in SwitchArgs, cwd \in 1..3, f \in 0..1 : SwitchStart(arg, cwd, f)
    \/ \E key \in SelectorKeys, item \in 0..3 : SwitchSelect(key, item)
    \/ \E f \in 0..1 : SwitchFind(f)
    \/ \E f \in 0..1 : SwitchStatus(f)
    \/ \E input \in Inputs1 : SwitchPrompt(input)
    \/ \E f \in 0..2 : SwitchStash(f)
    \/ \E ok \in BOOLEAN : SwitchShell(ok)
    \/ Exit

SpecSwitch == Init /\ [][NextSwitch]_vars

\* One call of CopyFiles or of RunPostHooks, on every list.
InitHooks ==
    /\ scan = ScanIdle
    /\ lb = LbIdle
    /\ registry = <<Entry(pPR, bMain, FALSE, FALSE)>>
    /\ dirs = {}
    /\ localRefs = {bMain}
    /\ remoteRefs = {}
    /\ remoteURL = NoURL
    /\ cmd = Fresh
    /\ log = <<>>
    /\ ret = NoRet
    /\ ncmd = 0
    /\ pre = PreIdle
    /\ up = Idle /\ par = Idle
    /\ \/ \E files \in ListsOf(FileNames), kinds \in [FileNames -> SourceKinds] :
            hk = CopyState(files, kinds)
       \/ \E dir \in {pWA, pWD}, commands \in ListsOf(HookCommands) :
            hk = HookState(dir, commands)

NextHooks ==
    \/ \E failed, partial \in BOOLEAN : CopyStep(failed, partial)
    \/ CopyReturn
    \/ \E startOk \in BOOLEAN : HookStart(startOk)
    \/ \E exit \in {0, 1} : HookWait(exit)
    \/ HookReturn

SpecHooks == InitHooks /\ [][NextHooks]_vars

\* isNewerVersion on every pair of a running and a released version.
InitVersions ==
    /\ scan = ScanIdle
    /\ lb = LbIdle
    /\ registry = <<Entry(pPR, bMain, FALSE, FALSE)>>
    /\ dirs = {}
    /\ localRefs = {bMain}
    /\ remoteRefs = {}
    /\ remoteURL = NoURL
    /\ cmd = Fresh
    /\ log = <<>>
    /\ ret = NoRet
    /\ ncmd = 0
    /\ pre = PreIdle
    /\ hk = Idle /\ par = Idle
    /\ \E current \in Versions, latest \in Versions :
         /\ latest.form \in NumberForms
         /\ up = [pc |-> "versions", current |-> current, latest |-> latest,
                  newer |-> FALSE, cmp |-> 0, rev |-> 0]

NextVersions == CompareCall

SpecVersions == InitVersions /\ [][NextVersions]_vars

\* One call of CachedCheck, on every cache file.
InitCache ==
    /\ scan = ScanIdle
    /\ lb = LbIdle
    /\ registry = <<Entry(pPR, bMain, FALSE, FALSE)>>
    /\ dirs = {}
    /\ localRefs = {bMain}
    /\ remoteRefs = {}
    /\ remoteURL = NoURL
    /\ cmd = Fresh
    /\ log = <<>>
    /\ ret = NoRet
    /\ ncmd = 0
    /\ pre = PreIdle
    /\ hk = Idle /\ par = Idle
    /\ \E version \in RunningVersions, file \in CacheFiles, home \in BOOLEAN :
         up = CheckState(version, file, home)

NextCache ==
    \/ CachedLoad
    \/ \E fetched \in BOOLEAN, release \in Releases : CachedFetch(fetched, release)
    \/ \E written \in {"whole", "torn", "none"} : CachedSave(written)

SpecCache == InitCache /\ [][NextCache]_vars

\* One wk update, of every installation.
InitUpdate ==
    /\ scan = ScanIdle
    /\ lb = LbIdle
    /\ registry = <<Entry(pPR, bMain, FALSE, FALSE)>>
    /\ dirs = {}
    /\ localRefs = {bMain}
    /\ remoteRefs = {}
    /\ remoteURL = NoURL
    /\ cmd = Fresh
    /\ log = <<>>
    /\ ret = NoRet
    /\ ncmd = 0
    /\ pre = PreIdle
    /\ hk = Idle /\ par = Idle
    /\ \E execPath \in ExecPaths, exeOk \in BOOLEAN, gopath \in {Empty, sGoPath},
          home \in {Empty, sUserHome}, force \in BOOLEAN, version \in RunningVersions,
          writable \in BOOLEAN, backup \in {"none", "stale"},
          cache \in {NoEntry("absent"),
                     CacheEntry(Now, CheckForUpdate(sV1, Release(sV2, TRUE)))} :
         up = UpdateState(execPath, exeOk, gopath, home, force, version, writable,
                          Disk("old", backup, cache))

NextUpdate ==
    \/ UpdateDetect
    \/ \E fetched \in BOOLEAN, release \in Releases : UpdateCheck(fetched, release)
    \/ \E response \in Inputs1 : UpdatePrompt(response)
    \/ \E prepared \in Preparations : UpdatePerform(prepared)
    \/ \E ok \in BOOLEAN : InstallBackup(ok)
    \/ \E ok \in BOOLEAN, written \in {"none", "partial"}, failing \in SUBSET BestEffort :
         InstallCopy(ok, written, failing)
    \/ \E ok \in BOOLEAN, failing \in SUBSET BestEffort : InstallChmod(ok, failing)
    \/ \E ok \in BOOLEAN, failing \in SUBSET BestEffort : InstallVerify(ok, failing)

SpecUpdate == InitUpdate /\ [][NextUpdate]_vars

(***************************************************************************)
(* Two invocations of Add at once, one step of one of them at a time.      *)
(***************************************************************************)
\* The branches asked for: a new one, one that only the remote has, and
\* the one the primary worktree has checked out.
ParBranches == {bA, bB, bMain}

\* One invocation's locals. faulted: the file system or git failed under it
\* before its external add; cause: the step it returned an error from;
\* found: the worktrees directory was there when it came to create it.
Proc(branch) ==
    [pc |-> "dir", branch |-> branch, dir |-> Empty, path |-> Empty,
     exists |-> FALSE, found |-> FALSE, faulted |-> FALSE, cause |-> "none",
     err |-> FALSE, val |-> Empty]

ProcFail(q, cause) == [q EXCEPT !.pc = "returned", !.err = TRUE, !.cause = cause]

ParRest ==
    UNCHANGED <<scan, lb, remoteRefs, remoteURL, cmd, log, ret, ncmd, pre, hk, up>>

\* A faulty variant of MkdirAll: os.Mkdir, which fails on a directory that
\* is already there.
MkdirExclusive(dir, ds, fault) ==
    IF fault \/ dir \in ds THEN [err |-> TRUE, dirs |-> ds]
    ELSE [err |-> FALSE, dirs |-> ds \cup {dir}]

\* os.MkdirAll(worktreesDir, 0755), line 32: nil, and nothing changes,
\* when the directory is already there.
MkdirAll(dir, ds, fault) ==
    IF fault THEN [err |-> TRUE, dirs |-> ds]
    ELSE [err |-> FALSE, dirs |-> ds \cup {dir}]

\* Add, lines 26-29
ParDir(p, f) ==
    /\ par.pc = "run" /\ par.procs[p].pc = "dir"
    /\ \E d \in {GetWorktreesDir(<<>>, f)} :
         par' = [par EXCEPT !.procs[p] =
                    IF d.err THEN ProcFail([@ EXCEPT !.faulted = TRUE], "dir")
                    ELSE [@ EXCEPT !.pc = "mkdir", !.dir = d.val]]
    /\ UNCHANGED <<registry, dirs, localRefs>>
    /\ ParRest

\* Add, lines 31-36
ParMkdir(p, fault) ==
    /\ par.pc = "run" /\ par.procs[p].pc = "mkdir"
    /\ \E q \in {par.procs[p]} :
       \E m \in {MkdirAll(q.dir, dirs, fault)} :
         /\ dirs' = m.dirs
         /\ par' = [par EXCEPT !.procs[p] =
                       IF m.err
                       THEN ProcFail([q EXCEPT !.faulted = fault,
                                               !.found = q.dir \in dirs], "mkdir")
                       ELSE [q EXCEPT !.pc = "probe", !.found = q.dir \in dirs,
                                      !.path = Join(q.dir, q.branch)]]
    /\ UNCHANGED <<registry, localRefs>>
    /\ ParRest

\* Add, line 39
ParProbe(p) ==
    /\ par.pc = "run" /\ par.procs[p].pc = "probe"
    /\ \E be \in {BranchExists(par.procs[p].branch, <<>>, 0)} :
         par' = [par EXCEPT !.procs[p] = [@ EXCEPT !.pc = "add", !.exists = be.val]]
    /\ UNCHANGED <<registry, dirs, localRefs>>
    /\ ParRest

\* Add, lines 39-52: the external add on the repository as it is now.
ParAdd(p, fault) ==
    /\ par.pc = "run" /\ par.procs[p].pc = "add"
    /\ \E q \in {par.procs[p]} :
       \E o \in {AddRun(q.branch, dirs, q.path,
                        AddArgv(q.exists, q.path, q.branch), <<>>, fault)} :
         /\ registry' = o.registry
         /\ dirs' = o.dirs
         /\ localRefs' = o.localRefs
         /\ par' = [par EXCEPT !.procs[p] =
                       IF o.err THEN ProcFail(q, "add")
                       ELSE [q EXCEPT !.pc = "returned", !.val = o.val]]
    /\ ParRest

\* Two invocations of Add for different branches, in every interleaving.
InitPar ==
    /\ scan = ScanIdle
    /\ lb = LbIdle
    /\ \E origin \in Origins, foreign \in ForeignSets :
         /\ registry = <<Entry(origin[1], bMain, FALSE, FALSE)>> \o foreign
         /\ remoteURL = origin[2]
         /\ dirs = {foreign[i].Path : i \in 1..Len(foreign)}
         /\ localRefs = {bMain}
               \cup ({foreign[i].Branch : i \in 1..Len(foreign)} \ {Empty})
    /\ remoteRefs = {bB}
    /\ cmd = Fresh
    /\ log = <<>>
    /\ ret = NoRet
    /\ ncmd = 0
    /\ pre = PreIdle
    /\ hk = Idle /\ up = Idle
    /\ \E b1 \in ParBranches, b2 \in ParBranches :
         /\ b1 # b2
         /\ par = [pc |-> "run", procs |-> <<Proc(b1), Proc(b2)>>]

NextPar ==
    \/ \E p \in 1..2, f \in Faults : ParDir(p, f)
    \/ \E p \in 1..2, fault \in BOOLEAN : ParMkdir(p, fault)
    \/ \E p \in 1..2 : ParProbe(p)
    \/ \E p \in 1..2, fault \in BOOLEAN : ParAdd(p, fault)

SpecPar == InitPar /\ [][NextPar]_vars

\* wk new, from one repository to the next.
InitNew ==
    /\ scan = ScanIdle
    /\ lb = LbIdle
    /\ \E origin \in Origins, foreign \in {<<>>, <<Entry(pWA, bA, FALSE, FALSE)>>} :
         /\ registry = <<Entry(origin[1], bMain, FALSE, FALSE)>> \o foreign
         /\ remoteURL = origin[2]
         /\ dirs = {foreign[i].Path : i \in 1..Len(foreign)}
         /\ localRefs = {bMain} \cup {foreign[i].Branch : i \in 1..Len(foreign)}
    /\ remoteRefs = {bB}
    /\ cmd = Fresh
    /\ log = <<>>
    /\ ret = NoRet
    /\ ncmd = 0
    /\ pre = PreIdle
    /\ hk = Idle /\ up = Idle /\ par = Idle

NextNew ==
    \/ \E b \in BranchNames, f \in Faults : NewStart(b, f)
    \/ NewCancelled
    \/ NewConfig
    \/ NewCopy
    \/ NewHook
    \/ NewSwitch
    \/ Exit

SpecNew == InitNew /\ [][NextNew]_vars

\* A repository no command runs on.
Quiet ==
    /\ registry = <<Entry(pPR, bMain, FALSE, FALSE)>>
    /\ dirs = {}
    /\ localRefs = {bMain}
    /\ remoteRefs = {}
    /\ remoteURL = NoURL
    /\ cmd = Fresh
    /\ log = <<>>
    /\ ret = NoRet
    /\ ncmd = 0
    /\ pre = PreIdle
    /\ hk = Idle /\ up = Idle /\ par = Idle

\* parseWorktreeList on every input of up to MaxLines lines.
InitParse ==
    /\ \E input \in Inputs : scan = ScanState("scan", input, input, ScanStart, <<>>)
    /\ lb = LbIdle
    /\ Quiet

NextParse == ScanStep \/ ScanEnd

SpecParse == InitParse /\ [][NextParse]_vars

\* ListBranches on every listing of up to MaxRefs references.
InitBranches ==
    /\ scan = ScanIdle
    /\ \E refs \in RefLists :
         lb = LbState("scan", refs, [i \in 1..Len(refs) |-> RefLine(refs[i])],
                      LbStart, 0, {}, <<>>)
    /\ Quiet

NextBranches == LbScan \/ LbScanned \/ LbMark \/ LbMarked \/ LbAppend \/ LbReturn

SpecBranches == InitBranches /\ [][NextBranches]_vars

(***************************************************************************)
(* Properties.                                                             *)
(***************************************************************************)
Mutators == {"Add", "Remove", "Move"}

\* worktreesDirectory() in the repository as it is
WorktreesDirectory == GetWorktreesDir(<<>>, 0).val

\* The positions of lg that hold an invocation of `git worktree <verb>`.
GitCalls(lg, verb) ==
    {i \in 1..Len(lg) :
        lg[i].kind = "git" /\ lg[i].argv[1] = Lit("worktree") /\ lg[i].argv[2] = Lit(verb)}

\* The show-ref invocations of lg, in order.
Probes(lg) == SelectSeq(lg, LAMBDA c : c.argv[1] = Lit("show-ref"))

WorktreeLines(input) == SelectSeq(input, LAMBDA l : HasPrefix(l, sWorktreeSp))

\* Every `worktree` line of the input carries a path.
WellFormed(input) ==
    \A i \in 1..Len(input) :
        /\ HasPrefix(input[i], sWorktreeSp) => input[i] # sWorktreeSp
        /\ ByteLen(input[i]) < 65536

BatchAttemptsEveryMove ==
    cmd.name = "organize" =>
        /\ Len(cmd.events) <= Len(cmd.nonStandard)
        /\ \A i \in 1..Len(cmd.events) :
             cmd.events[i].kind = "move" /\ cmd.events[i].what = cmd.nonStandard[i].Path
        /\ cmd.pc = "move" => Len(cmd.events) = cmd.i - 1
        /\ cmd.pc = "returned" /\ Len(cmd.events) > 0 =>
             Len(cmd.events) = Len(cmd.nonStandard) /\ ~cmd.err

BatchWentOnAfterFailure ==
    /\ cmd.name = "organize" /\ cmd.pc = "returned"
    /\ Len(cmd.events) = 2
    /\ ~cmd.events[1].ok
    /\ cmd.events[2].ok
    /\ ~cmd.err

\* C4 as stated: whenever Add, Remove or Move returns an error, the registry
\* and the directories on disk (the worktrees directory among them) are as
\* before the call.
FailedMutatorChangesNothing ==
    [][ret'.op \in Mutators /\ ret'.err => registry' = registry /\ dirs' = dirs]_vars

\* C4 as amended: whenever Add, Remove or Move returns an error, the registry
\* and the branches are as before the call, and so are the directories on
\* disk except that the worktrees directory may have been created.
FailedMutatorOnlyMakesDirectory ==
    [][ret'.op \in Mutators /\ ret'.err =>
        /\ registry' = registry
        /\ localRefs' = localRefs
        /\ dirs \subseteq dirs'
        /\ dirs' \ dirs \subseteq {WorktreesDirectory}
    ]_vars

FailedAddLeftDirectory ==
    /\ ret.op = "Add" /\ ret.err
    /\ ncmd = 1
    /\ WorktreesDirectory \in dirs
    /\ Len(registry) = 1

\* C6: IsInStandardLocation answers true for the primary worktree's path,
\* whatever the path and the worktrees directory are, and organize never
\* selects the primary worktree.
PrimaryAlwaysStandard ==
    /\ ret.op = "IsInStandardLocation" /\ ret.args[1] = registry[1].Path /\ ~ret.err
         => ret.val
    /\ \A i \in 1..Len(cmd.nonStandard) : cmd.nonStandard[i].Path # registry[1].Path

RemoveForcesIffAsked ==
    [][cmd.pc = "idle" /\ ret'.op = "Remove" =>
        LET target == ret'.args[1]
            force == ret'.val
            dirty == \E i \in Resolve(target) : registry[i].dirty
        IN /\ Len(log') = 1
           /\ log'[1].argv =
                IF force
                THEN <<Lit("worktree"), Lit("remove"), Lit("--force"), Str(target)>>
                ELSE <<Lit("worktree"), Lit("remove"), Str(target)>>
           /\ dirty /\ ~force => ret'.err /\ registry' = registry
           /\ dirty /\ force /\ log'[1].exit = 0 =>
                /\ ~ret'.err
                /\ \A i \in Resolve(target) :
                     \A j \in 1..Len(registry') : registry'[j].Path # registry[i].Path
    ]_vars

ForcedRemovalOfDirty ==
    /\ ret.op = "Remove" /\ ret.val = TRUE /\ ~ret.err
    /\ ret.args = <<pWA>>
    /\ ncmd = 1
    /\ Len(registry) = 1
    /\ pWA \notin dirs
    /\ log[1].argv[3] = Lit("--force")

\* C10 as stated: within one call no external command is invoked twice, and a
\* non-zero exit of a git command makes the call return an error.
ExitNeverRetriedAlwaysSurfaced ==
    /\ \A i, j \in 1..Len(log) : i < j => log[i].argv # log[j].argv
    /\ (\E i \in 1..Len(log) : log[i].kind = "git" /\ log[i].exit = 1) => ret.err

\* The non-zero exits a call does not return as an error: the probes of
\* BranchExists, the lookup of remote.origin.url, and the lookup of the
\* primary path IsInStandardLocation makes once it has the directory.
Consumed(i) ==
    \/ log[i].argv[1] = Lit("show-ref")
    \/ log[i].argv[1] = Lit("config")
    \/ /\ ret.op = "IsInStandardLocation"
       /\ i = Len(GetWorktreesDir(<<>>, 0).log) + 1

\* C10 as amended: a command that exited non-zero is not invoked again in the
\* same call, and the call returns an error for every non-zero exit of a git
\* command other than a show-ref probe, the config lookup, and
\* IsInStandardLocation's last lookup of the primary path.
FailedCommandNotRepeated ==
    /\ \A i, j \in 1..Len(log) :
         i < j /\ log[i].exit = 1 => log[j].argv # log[i].argv
    /\ \A i \in 1..Len(log) :
         log[i].kind = "git" /\ log[i].exit = 1 /\ ~Consumed(i) => ret.err

FailedMoveSurfaced ==
    /\ ret.op = "Move" /\ ret.err
    /\ log[Len(log)].argv[2] = Lit("move")
    /\ log[Len(log)].exit = 1
    /\ Cardinality(GitCalls(log, "move")) = 1

\* The order of the kinds of step wk new takes.
Rank(kind) ==
    CASE kind = "add" -> 1 [] kind = "copy" -> 2 [] kind = "hook" -> 3
      [] kind = "shell" -> 4

\* C8: wk new adds the worktree, then copies the configured files, then runs
\* the hooks; it copies nothing unless the add succeeded, and runs no hook
\* unless the add succeeded and every configured copy was made without error.
NewStepsInOrder ==
    cmd.name = "new" =>
        LET ev == cmd.events
        IN /\ \A i, j \in 1..Len(ev) : i < j => Rank(ev[i].kind) <= Rank(ev[j].kind)
           /\ \A i \in 1..Len(ev) :
                /\ ev[i].kind = "add" => i = 1 /\ ev[i].ok = ~ret.err
                /\ ev[i].kind \in {"copy", "hook"} =>
                     /\ ev[1].kind = "add" /\ ev[1].ok
                     /\ ret.op = "Add" /\ ~ret.err
                /\ ev[i].kind = "hook" =>
                     /\ cmd.copy = <<>>
                     /\ \A j \in 1..Len(ev) :
                          ev[j].kind = "copy" => ev[j].ok # "error"

NewRanHookAfterCopies ==
    /\ cmd.name = "new"
    /\ Len(cmd.events) = 4
    /\ cmd.events[1].kind = "add"
    /\ cmd.events[2].kind = "copy" /\ cmd.events[2].ok = "missing"
    /\ cmd.events[3].kind = "copy" /\ cmd.events[3].ok = "copied"
    /\ cmd.events[4].kind = "hook" /\ cmd.events[4].ok

LocalNames(refs) == {refs[i].name : i \in {k \in 1..Len(refs) : ~refs[k].remote}}
RemoteNames(refs) == {refs[i].name : i \in {k \in 1..Len(refs) : refs[k].remote}}

\* C5: for local names L and remote names R (no remote HEAD), ListBranches
\* returns |L \cup R| records with distinct names, each with IsLocal = (name
\* in L) and IsRemote = (name in R).
MergedBranchesMatchSets ==
    lb.pc = "done" /\ sHEAD \notin RemoteNames(lb.refs) =>
        LET L == LocalNames(lb.refs)
            R == RemoteNames(lb.refs)
        IN /\ Len(lb.out) = Cardinality(L \cup R)
           /\ \A i, j \in 1..Len(lb.out) : i # j => lb.out[i].Name # lb.out[j].Name
           /\ \A i \in 1..Len(lb.out) :
                /\ lb.out[i].IsLocal = (lb.out[i].Name \in L)
                /\ lb.out[i].IsRemote = (lb.out[i].Name \in R)

\* The position in refs of the line of the local branch name.
LocalLine(refs, name) == CHOOSE k \in 1..Len(refs) : refs[k] = LocalRef(name)

\* C11: in the result of ListBranches every record with IsLocal precedes
\* every record without it, and the records with IsLocal are in the order of
\* their lines in the output of git for-each-ref.
LocalsFirstInLineOrder ==
    lb.pc = "done" =>
        \A i, j \in 1..Len(lb.out) :
            i < j =>
                /\ lb.out[j].IsLocal => lb.out[i].IsLocal
                /\ lb.out[i].IsLocal /\ lb.out[j].IsLocal =>
                     LocalLine(lb.refs, lb.out[i].Name) < LocalLine(lb.refs, lb.out[j].Name)

RemoteOnlyAfterLaterLocals ==
    /\ lb.pc = "done"
    /\ lb.refs = <<RemoteRef(bA), LocalRef(bB), RemoteRef(bB)>>
    /\ Len(lb.out) = 2
    /\ lb.out[1].Name = bB /\ lb.out[1].IsLocal /\ lb.out[1].IsRemote
    /\ lb.out[2].Name = bA /\ ~lb.out[2].IsLocal /\ lb.out[2].IsRemote

\* The positions of the `worktree` lines of input.
WtPos(input) ==
    SelectSeq([i \in 1..Len(input) |-> i], LAMBDA i : HasPrefix(input[i], sWorktreeSp))

\* The lines of the k-th block of input that follow its `worktree` line.
BlockLines(input, k) ==
    SubSeq(input, WtPos(input)[k] + 1,
           IF k < Len(WtPos(input)) THEN WtPos(input)[k + 1] - 1 ELSE Len(input))

HasLine(block, line) == \E i \in 1..Len(block) : block[i] = line
HasKey(block, key) == \E i \in 1..Len(block) : HasPrefix(block[i], key)

\* C12: a block with a `detached` line and no `branch` line yields a record
\* whose Branch is "(detached)".
DetachedBlockGetsSentinel ==
    scan.pc = "done" /\ WellFormed(scan.input) =>
        \A k \in 1..Len(scan.out) :
            /\ HasLine(BlockLines(scan.input, k), <<"d", "e", "t", "a", "c", "h", "e", "d">>)
            /\ ~HasKey(BlockLines(scan.input, k), sBranchSp)
            => scan.out[k].Branch = <<"(", "d", "e", "t", "a", "c", "h", "e", "d", ")">>

ParsedDetachedBlock ==
    /\ scan.pc = "done"
    /\ scan.input = <<lWtA, sDetachedLine, lHead>>
    /\ Len(scan.out) = 1
    /\ scan.out[1].Branch = <<"(", "d", "e", "t", "a", "c", "h", "e", "d", ")">>

\* The reference of a `branch <ref>` line.
RefOf(line) == SubSeq(line, Len(sBranchSp) + 1, Len(line))

\* C13: a `branch <ref>` line stores <ref> without one leading refs/heads/,
\* and a <ref> that does not start with refs/heads/ as it is.
BranchLineStripsOnePrefix ==
    scan.pc = "done" /\ WellFormed(scan.input) =>
        \A k \in 1..Len(scan.out) :
            LET block == BlockLines(scan.input, k)
                lines == SelectSeq(block, LAMBDA l : HasPrefix(l, sBranchSp))
            IN Len(lines) = 1 /\ ~HasLine(block, sDetachedLine) =>
                 scan.out[k].Branch =
                    IF HasPrefix(RefOf(lines[1]), sRefsHeads)
                    THEN SubSeq(RefOf(lines[1]), Len(sRefsHeads) + 1, Len(RefOf(lines[1])))
                    ELSE RefOf(lines[1])

ParsedDoublePrefix ==
    /\ scan.pc = "done"
    /\ scan.input = <<lWtA, lBranchTwice>>
    /\ Len(scan.out) = 1
    /\ scan.out[1].Branch = sRefsHeads \o <<"m">>

\* The lines parseWorktreeList has a case for.
Recognised(line) ==
    \/ HasPrefix(line, sWorktreeSp)
    \/ HasPrefix(line, sHeadSp)
    \/ HasPrefix(line, sBranchSp)
    \/ line = sDetachedLine

\* What the claim says of truncated blocks and of blank or unknown lines.
LenientOn(input, out) ==
    /\ WellFormed(input) =>
         \A k \in 1..Len(out) :
            /\ ~HasKey(BlockLines(input, k), sHeadSp) => out[k].Commit = <<>>
            /\ ~HasKey(BlockLines(input, k), sBranchSp)
               /\ ~HasLine(BlockLines(input, k), sDetachedLine) => out[k].Branch = <<>>
    /\ out = parseWorktreeList(SelectSeq(input, Recognised))

\* C14 as stated: parseWorktreeList fails on no sequence of lines, a block
\* without HEAD or branch line is returned with those fields empty, and blank
\* or unknown lines change neither the records nor their fields.
ParseNeverFails ==
    scan.pc = "done" => ~scan.err /\ LenientOn(scan.input, scan.out)

\* C14 as amended: the same, on every sequence of lines that each fit the
\* scanner's buffer.
ParseNeverFailsOnShortLines ==
    scan.pc = "done" /\ (\A i \in 1..Len(scan.input) : ByteLen(scan.input[i]) < 65536) =>
        ~scan.err /\ LenientOn(scan.input, scan.out)

ParsedTruncatedBlock ==
    /\ scan.pc = "done"
    /\ scan.input = <<lWtA, Empty, lBare>>
    /\ ~scan.err
    /\ scan.out = <<Worktree(<<"/", "a">>, <<>>, <<>>)>>

\* The repository name the claim describes.
ClaimedRepoName ==
    IF remoteURL.set /\ extractRepoName(remoteURL.url) # <<>>
    THEN extractRepoName(remoteURL.url)
    ELSE Base(registry[1].Path)

\* C15: GetWorktreesDir returns parentDir(primaryPath)/(repoName +
\* ".worktrees"), repoName being the name extracted from remote.origin.url
\* when the query succeeds and the name is not empty, and the base name of the
\* primary worktree's directory otherwise.
WorktreesDirFromNameAndParent ==
    ret.op = "GetWorktreesDir" /\ ~ret.err =>
        ret.val = (IF Dir(registry[1].Path) = <<"/">> THEN <<>> ELSE Dir(registry[1].Path))
                  \o <<"/">> \o ClaimedRepoName
                  \o <<".", "w", "o", "r", "k", "t", "r", "e", "e", "s">>

WorktreesDirFellBack ==
    /\ ret.op = "GetWorktreesDir" /\ ~ret.err
    /\ remoteURL = URL(uHttpsSlash)
    /\ ret.val = <<"/", "r", ".", "w", "o", "r", "k", "t", "r", "e", "e", "s">>

\* C16: for a URL scheme://host/owner/repo[.git] or user@host:owner/repo[.git]
\* extractRepoName returns repo, the last path segment without the trailing
\* .git, and the result holds no "/".
ExtractGivesRepo ==
    ret.op = "extractRepoName" =>
        /\ \A p \in URLParts : ComposeURL(p) = ret.args[1] => ret.val = p.repo
        /\ \A i \in 1..Len(ret.val) : ret.val[i] # "/"

ExtractedFromScpForm ==
    /\ ret.op = "extractRepoName"
    /\ ret.args[1] = <<"g", "i", "t", "@", "h", ":", "o", "/", "x", "g", "i", "t", ".", "g", "i", "t">>
    /\ ret.val = <<"x", "g", "i", "t">>

\* C17: a line origin/<name> is stored under <name>, and the line
\* origin/HEAD yields no record: no record is named HEAD, none keeps the
\* origin/ prefix, and every other remote-tracking line has its record.
RemoteLinesStrippedHeadDropped ==
    lb.pc = "done" =>
        /\ \A i \in 1..Len(lb.out) :
             /\ lb.out[i].Name # <<"H", "E", "A", "D">>
             /\ ~HasPrefix(lb.out[i].Name, <<"o", "r", "i", "g", "i", "n", "/">>)
        /\ \A k \in 1..Len(lb.refs) :
             lb.refs[k].remote /\ lb.refs[k].name # <<"H", "E", "A", "D">> =>
                \E i \in 1..Len(lb.out) :
                    lb.out[i].Name = lb.refs[k].name /\ lb.out[i].IsRemote

RemoteHeadLeftOut ==
    /\ lb.pc = "done"
    /\ lb.refs = <<RemoteRef(sHEAD), RemoteRef(bA), LocalRef(bB)>>
    /\ Len(lb.out) = 2
    /\ lb.out[1].Name = bB /\ ~lb.out[1].IsRemote
    /\ lb.out[2].Name = bA /\ lb.out[2].IsRemote

\* C18: Move makes the worktrees directory before it invokes `git worktree
\* move`, with the target worktreesDirectory()/Branch; on success it returns
\* the target, the target starts with the worktrees directory, and so does
\* the path the worktree is then registered at.
MoveTargetsStandardLocation ==
    [][cmd.pc = "move" /\ ret'.op = "Move" =>
        LET from == ret'.args[1]
            target == WorktreesDirectory \o <<"/">> \o ret'.args[2]
        IN /\ \A i \in GitCalls(log', "move") :
                /\ log'[i].argv = <<Lit("worktree"), Lit("move"), Str(from), Str(target)>>
                /\ \E j \in 1..(i - 1) :
                     /\ log'[j].kind = "fs"
                     /\ log'[j].argv = <<Lit("MkdirAll"), Str(WorktreesDirectory)>>
                     /\ log'[j].exit = 0
                /\ WorktreesDirectory \in dirs'
           /\ ~ret'.err =>
                /\ Cardinality(GitCalls(log', "move")) = 1
                /\ ret'.val = target
                /\ HasPrefix(ret'.val, WorktreesDirectory)
                /\ \A i \in 1..Len(registry) :
                     registry[i].Path = from =>
                        /\ registry'[i].Path # from
                        /\ HasPrefix(registry'[i].Path, WorktreesDirectory)
    ]_vars

MovedDetachedWorktree ==
    /\ ret.op = "Move" /\ ~ret.err
    /\ ret.args = <<pWD, sDetached>>
    /\ ret.val = WorktreesDirectory \o <<"/">> \o sDetached
    /\ WorktreesDirectory \in dirs
    /\ \E i \in 1..Len(registry) : registry[i].Path = ret.val

\* The commands the requirement is about, and those past the hook.
NeedsRepository(c) == c.name \notin {"help", "version", "update", "completion"}
PastPreRun == pre.pc \in {"failed", "exited", "validated", "ran"}
BodyReached == pre.pc \in {"validated", "ran"}

\* C19 as stated: a command other than help, version, update and completion,
\* started where the current directory is not inside a work tree, gets an
\* error from pre-validation and its body never runs.
OutsideWorkTreeNeverRuns ==
    (NeedsRepository(pre.cmd) /\ pre.place # "worktree") =>
        /\ ~BodyReached
        /\ PastPreRun => pre.err

\* C19, amended: a command other than help, version, update and completion,
\* given no --help flag and started where `git rev-parse
\* --is-inside-work-tree` fails (no repository, or git cannot be run), gets
\* an error from pre-validation and its body never runs.
OutsideRepositoryNeverRuns ==
    (/\ NeedsRepository(pre.cmd)
     /\ pre.cmd.help = "unset"
     /\ (pre.fault \/ pre.place \in {"none", "gone"})) =>
        /\ ~BodyReached
        /\ PastPreRun => (pre.err /\ ~pre.hint /\ ~pre.notice)

ListRefusedOutsideRepository ==
    /\ pre.pc = "exited"
    /\ pre.cmd = Invocation("list", "unset")
    /\ pre.place = "none" /\ ~pre.fault
    /\ pre.err

\* The nearest .wk.yaml above the current directory, "absent" if none.
RECURSIVE Nearest(_)
Nearest(chain) ==
    IF chain = <<>> THEN "absent"
    ELSE IF Head(chain) # "absent" THEN Head(chain)
    ELSE Nearest(Tail(chain))

InsideRepository == ~pre.fault /\ pre.place \in {"worktree", "gitdir", "bare"}

\* C20 as stated: inside a git repository, a command that finds no .wk.yaml
\* shows the hint and goes on without error, and one that finds a .wk.yaml
\* that is not YAML fails before its body runs.
ConfigHintOrFailure ==
    (NeedsRepository(pre.cmd) /\ InsideRepository /\ PastPreRun) =>
        /\ Nearest(pre.chain) = "absent" => (pre.hint /\ ~pre.err /\ BodyReached)
        /\ Nearest(pre.chain) = "syntax" => (pre.err /\ ~BodyReached)

\* C20, amended: inside a git repository, a command other than help,
\* version, update, completion and init, given no --help flag, shows the
\* hint and goes on without error when no .wk.yaml is found from the
\* current directory up to the root, and fails before its body runs when
\* the nearest .wk.yaml cannot be read or decoded; init gets neither.
ConfigHintOrFailureButInit ==
    (NeedsRepository(pre.cmd) /\ pre.cmd.help = "unset" /\ InsideRepository
     /\ PastPreRun) =>
        IF pre.cmd.name = "init"
        THEN ~pre.hint /\ ~pre.err /\ BodyReached
        ELSE /\ Nearest(pre.chain) = "absent" => (pre.hint /\ ~pre.err /\ BodyReached)
             /\ Nearest(pre.chain) \in {"syntax", "mistyped", "unreadable"} =>
                    (pre.err /\ ~pre.hint /\ ~BodyReached)
             /\ Nearest(pre.chain) = "valid" => (~pre.hint /\ ~pre.err /\ BodyReached)

NewRefusedOnInvalidConfigAbove ==
    /\ pre.pc = "exited"
    /\ pre.cmd = Invocation("new", "unset")
    /\ pre.place = "worktree" /\ ~pre.fault
    /\ pre.chain = <<"absent", "syntax">>
    /\ pre.err

\* C28: within wk organize, a step invokes `git worktree move` or changes
\* the registry only in the moving loop, which is entered only with a
\* non-standard worktree and an answer that was read and is, trimmed and
\* lower-cased, y or yes.
Agreed(c) == c.read /\ TrimSpace(ToLower(c.answer)) \in {<<"y">>, <<"y", "e", "s">>}

OrganizeMovesOnlyOnYes ==
    [][(cmd.name = "organize" /\ cmd'.name = "organize") =>
        /\ (registry' # registry \/ (log' # log /\ GitCalls(log', "move") # {})) =>
              (cmd.pc = "move" /\ Agreed(cmd) /\ Len(cmd.nonStandard) > 0)
        /\ cmd'.pc = "move" => (Agreed(cmd') /\ Len(cmd'.nonStandard) > 0)
    ]_vars

OrganizeDeclined ==
    /\ cmd.name = "organize" /\ cmd.pc = "returned"
    /\ cmd.read /\ cmd.answer = <<"n", "\n">>
    /\ Len(cmd.nonStandard) > 0
    /\ ret.op = "GetWorktreesDir"
    /\ GitCalls(log, "move") = {}

\* C29: in one wk organize batch, distinct non-standard worktrees have
\* pairwise distinct targets worktreesDirectory()/Branch, each strictly
\* inside the worktrees directory.
TargetOf(wt) == Join(WorktreesDirectory, wt.Branch)

BatchTargetsDistinctAndInside ==
    (cmd.name = "organize" /\ cmd.pc = "move") =>
        \A i, j \in 1..Len(cmd.nonStandard) :
            /\ HasPrefix(TargetOf(cmd.nonStandard[i]), WorktreesDirectory \o <<"/">>)
            /\ Len(TargetOf(cmd.nonStandard[i])) > Len(WorktreesDirectory) + 1
            /\ cmd.nonStandard[i].Path # cmd.nonStandard[j].Path =>
                  TargetOf(cmd.nonStandard[i]) # TargetOf(cmd.nonStandard[j])

\* The positions of the command's trace that hold an event of the kinds.
EventsOf(kinds) == {i \in 1..Len(cmd.events) : cmd.events[i].kind \in kinds}

OnBranch(branch) == {i \in 1..Len(registry) : List(<<>>, 0).val[i].Branch = branch}

\* The trace of one wk switch: what came before what.
SwitchTrace ==
    cmd.name = "switch" =>
        /\ \A i \in EventsOf({"stash", "shell"}) :
              \E j \in 1..(i - 1) : cmd.events[j] = Ev("find", cmd.target, TRUE)
        /\ (cmd.pc \notin {"select", "find"} /\ EventsOf({"find"}) # {}
            /\ OnBranch(cmd.target) = {}) =>
              /\ cmd.pc = "returned" /\ cmd.err
              /\ EventsOf({"stash", "shell"}) = {}
              /\ ret.op = "FindByBranch"
              /\ ret.val.kind \in {"notfound", "list"}
              /\ ret.val.kind = "list" => log[Len(log)].exit # 0
        /\ \A i \in EventsOf({"stash"}) :
              /\ \E j \in 1..(i - 1) : cmd.events[j] = Ev("status", cmd.i, TRUE)
              /\ Agreed(cmd)
        /\ EventsOf({"select"}) # {} =>
              /\ cmd.pc = "returned" /\ ~cmd.err
              /\ EventsOf({"stash", "shell", "find"}) = {}

\* C27: in wk switch, a stash or a shell comes only after the target was
\* found; when no listed worktree is on the requested branch the command
\* ends in an error (not-found when the list could be read) with neither;
\* a stash is made only after uncommitted changes were seen and the answer
\* was y or yes; a cancelled selector ends the command without error and
\* without either; and the repository changes by a stash alone.
SwitchResolvesBeforeSideEffects ==
    [][/\ SwitchTrace'
       /\ (cmd.name = "switch" /\ cmd'.name = "switch" /\ registry' # registry) =>
             (cmd.pc = "stash" /\ ret'.op = "CreateStash" /\ ~ret'.err
              /\ EventsOf({"find"}) # {})]_vars

SwitchArgumentNotFound ==
    /\ cmd.name = "switch" /\ cmd.pc = "returned" /\ cmd.err
    /\ cmd.target = bB
    /\ ret.op = "FindByBranch" /\ ret.val.kind = "notfound"
    /\ cmd.events = <<Ev("find", bB, FALSE)>>

\* C25: RunPostHooks starts the commands in list order, one at a time,
\* each as `sh -c <command>` in the target directory; it starts nothing
\* after a command that failed, and its error names that command.
HooksRunInOrderUntilFailure ==
    hk.op = "RunPostHooks" =>
        /\ Len(hk.started) <= Len(hk.commands)
        /\ \A k \in 1..Len(hk.started) :
              /\ hk.started[k].argv = <<"sh", "-c", hk.commands[k]>>
              /\ hk.started[k].dir = hk.dir
        /\ hk.running # 0 => hk.running = Len(hk.started)
        /\ hk.err # NoError =>
              /\ hk.pc = "returned" /\ hk.running = 0
              /\ hk.err.what = hk.commands[hk.i]
              /\ Len(hk.started) <= hk.i
        /\ (hk.pc = "returned" /\ hk.err = NoError) =>
              Len(hk.started) = Len(hk.commands)

SecondHookNeverStarted ==
    /\ hk.op = "RunPostHooks" /\ hk.pc = "returned"
    /\ hk.commands = <<"c1", "c2">>
    /\ Len(hk.started) = 1 /\ hk.started[1].dir = pWA
    /\ hk.err = Errorf("command failed", "c1")

\* What CopyFiles has done so far; repeats: whether an entry copied before
\* is required to be in place even when the failing entry names it again.
CopyOutcome(repeats) ==
    hk.op = "CopyFiles" =>
        /\ \A k \in 1..Len(hk.trace) :
              /\ hk.trace[k][1] = k
              /\ hk.trace[k][2] =
                   (IF hk.kinds[hk.files[k]] = "missing" THEN "skipped" ELSE "copied")
              /\ hk.trace[k][2] = "copied" => hk.dst[hk.files[k]] \in {"copied", "partial"}
        /\ Len(hk.trace) = hk.i - 1
        /\ hk.err # NoError =>
              /\ hk.pc = "returned" /\ hk.i <= Len(hk.files)
              /\ hk.err.what = hk.files[hk.i]
              /\ hk.kinds[hk.files[hk.i]] # "missing"
              /\ \A n \in FileNames :
                    hk.dst[n] # "absent" => \E k \in 1..hk.i : hk.files[k] = n
              /\ \A k \in 1..(hk.i - 1) :
                    (hk.trace[k][2] = "copied"
                     /\ (repeats \/ hk.files[k] # hk.files[hk.i])) =>
                        hk.dst[hk.files[k]] = "copied"
        /\ (hk.pc = "returned" /\ hk.err = NoError) => hk.i = Len(hk.files) + 1

Components(v) == IF v.form = "more" THEN Append(v.nums, 7) ELSE v.nums
Triple(v) == [i \in 1..3 |-> IF i <= Len(Components(v)) THEN Components(v)[i] ELSE 0]

\* Lexicographic order on triples.
TripleGreater(t, u) ==
    \E i \in 1..3 : t[i] > u[i] /\ \A j \in 1..(i - 1) : t[j] = u[j]

CacheHit ==
    /\ up.home /\ up.cache0.state = "entry"
    /\ up.cache0.info.CurrentVersion = up.version
    /\ Now - up.cache0.CheckedAt < 24

\* C24: CachedCheck returns the cached result without fetching exactly when
\* the cache file loads, records the running version and is younger than
\* 24 hours; otherwise it fetches; the cache file changes only after a
\* successful fetch, a failed fetch returns the error; and what is returned
\* is never an entry recorded for another running version.
CachedOnlyWhenValid ==
    (up.op = "CachedCheck" /\ up.pc = "returned") =>
        /\ ~up.fetched <=> CacheHit
        /\ ~up.fetched => (~up.err /\ up.info = up.cache0.info /\ up.cache = up.cache0)
        /\ (up.fetched /\ up.err) => (up.cache = up.cache0 /\ up.info = NoInfo)
        /\ up.cache # up.cache0 => (up.fetched /\ ~up.err)
        /\ ~up.err => up.info.CurrentVersion = up.version

FreshEntryOfOtherVersionRefetched ==
    /\ up.op = "CachedCheck" /\ up.pc = "returned" /\ ~up.err
    /\ up.version = sV2 /\ up.home
    /\ up.cache0.state = "entry"
    /\ up.cache0.info.CurrentVersion = sV1 /\ up.cache0.CheckedAt = Now
    /\ up.fetched
    /\ up.cache = CacheEntry(Now, up.info)

\* What runUpdate requires before it calls PerformUpdate.
UpdateAllowed ==
    /\ DetectInstallMethod(up.exeOk, up.execPath, up.gopath, up.home)
           \notin {"homebrew", "go"}
    /\ up.info.UpdateAvailable
    /\ up.info.DownloadURL # Empty
    /\ up.force \/ (up.read /\ TrimSpace(ToLower(up.answer)) \in {sY, sYes})

\* C23: wk update calls PerformUpdate only if the detected install method
\* is neither Homebrew nor go-install, the release check reports an update
\* available, a download exists for the platform, and --force was given or
\* the answer was y or yes; otherwise the command leaves the binary, its
\* backup and the cache as they were.
UpdateOnlyWhenAllowed ==
    (up.called \/ up.pc \in {"perform", "backup", "copy", "chmod", "verify"}
        \/ up.disk # up.disk0) => UpdateAllowed

\* wk update without --force replaced the binary after the user agreed.
UpdatedAfterYes ==
    /\ up.pc = "returned" /\ ~up.err /\ up.called /\ ~up.force
    /\ up.disk.exec = "new"

AddAlone(q) ==
    /\ (q.pc = "returned" /\ q.cause = "mkdir") => q.faulted
    /\ (q.pc \in {"probe", "add"} \/ (q.pc = "returned" /\ q.cause \in {"none", "add"}))
           => q.dir \in dirs
    /\ (q.pc = "returned" /\ ~q.faulted) => (q.err <=> q.cause = "add")
    /\ (q.pc = "returned" /\ ~q.err) =>
           /\ q.val = Join(q.dir, q.branch)
           /\ \E i \in 1..Len(registry) :
                 registry[i].Path = q.val /\ registry[i].Branch = q.branch

\* C21: of two invocations of Add for different branches, interleaved
\* step by step, neither fails in creating the worktrees directory because
\* the other created it first (it fails there only when the file system
\* does); an invocation the file system and git's queries did not fail
\* returns an error exactly when its own external add failed, and
\* otherwise its worktree is registered at the path it returns.
ConcurrentAddsIndependent == par.pc = "run" => \A p \in 1..2 : AddAlone(par.procs[p])

\* Both invocations succeeded, the second having found the worktrees
\* directory that the first had just created.
BothAddedSecondFoundDirectory ==
    /\ par.pc = "run"
    /\ \A p \in 1..2 : par.procs[p].pc = "returned" /\ ~par.procs[p].err
    /\ ~par.procs[1].found /\ par.procs[2].found

====
